---- MODULE Spec2Model ----
(***************************************************************************)
(* MimicMotion: bilateral correspondence table, landmark smoother, stale-  *)
(* data fallback, asymmetry metrics calculator and triangulated warp       *)
(* engine, modelled from the sources under frontend/services.              *)
(*                                                                         *)
(* Arithmetic.  The program works on float32 arrays.  The model uses       *)
(* integers: a coordinate is a whole number of grid steps, the normalised  *)
(* value 1.0 is the grid value One, and a product with the smoothing       *)
(* factor is rounded to the nearest grid step (RoundDiv).                  *)
(***************************************************************************)
EXTENDS Integers, Sequences, FiniteSets, TLC

\* Python's None, and a value that is present: an optional value is a tuple of
\* length 0 or 1.
None == <<>>

Some(v) == <<v>>

Val(o) == o[1]

(***************************************************************************)
(* services/nodes.py: the bilateral correspondence table                   *)
(***************************************************************************)
LEFT_RIGHT_PAIRS ==
  <<
    <<3,248>>, <<7,249>>, <<20,250>>, <<21,251>>, <<22,252>>, <<23,253>>,
    <<24,254>>, <<25,255>>, <<26,256>>, <<27,257>>, <<28,258>>, <<29,259>>,
    <<30,260>>, <<31,261>>, <<32,262>>, <<33,263>>, <<34,264>>, <<35,265>>,
    <<36,266>>, <<37,267>>, <<38,268>>, <<39,269>>, <<40,270>>, <<41,271>>,
    <<42,272>>, <<43,273>>, <<44,274>>, <<45,275>>, <<46,276>>, <<47,277>>,
    <<48,278>>, <<49,279>>, <<50,280>>, <<51,281>>, <<52,282>>, <<53,283>>,
    <<54,284>>, <<55,285>>, <<56,286>>, <<57,287>>, <<58,288>>, <<59,289>>,
    <<60,290>>, <<61,291>>, <<62,292>>, <<63,293>>, <<64,294>>, <<65,295>>,
    <<66,296>>, <<67,297>>, <<68,298>>, <<69,299>>, <<70,300>>, <<71,301>>,
    <<72,302>>, <<73,303>>, <<74,304>>, <<75,305>>, <<76,306>>, <<77,307>>,
    <<78,308>>, <<79,309>>, <<80,310>>, <<81,311>>, <<82,312>>, <<83,313>>,
    <<84,314>>, <<85,315>>, <<86,316>>, <<87,317>>, <<88,318>>, <<89,319>>,
    <<90,320>>, <<91,321>>, <<92,322>>, <<93,323>>, <<95,324>>, <<96,325>>,
    <<97,326>>, <<98,327>>, <<99,328>>, <<100,329>>, <<101,330>>,
    <<102,331>>, <<103,332>>, <<104,333>>, <<105,334>>, <<106,335>>,
    <<107,336>>, <<108,337>>, <<109,338>>, <<110,339>>, <<111,340>>,
    <<112,341>>, <<113,342>>, <<114,343>>, <<115,344>>, <<116,345>>,
    <<117,346>>, <<118,347>>, <<119,348>>, <<120,349>>, <<121,350>>,
    <<122,351>>, <<123,352>>, <<124,353>>, <<125,354>>, <<126,355>>,
    <<127,356>>, <<128,357>>, <<129,358>>, <<130,359>>, <<131,360>>,
    <<132,361>>, <<133,362>>, <<134,363>>, <<135,364>>, <<136,365>>,
    <<137,366>>, <<138,367>>, <<139,368>>, <<140,369>>, <<141,370>>,
    <<142,371>>, <<143,372>>, <<144,373>>, <<145,374>>, <<146,375>>,
    <<147,376>>, <<148,377>>, <<149,378>>, <<150,379>>, <<153,380>>,
    <<154,381>>, <<155,382>>, <<156,383>>, <<157,384>>, <<158,385>>,
    <<159,386>>, <<160,387>>, <<161,388>>, <<162,389>>, <<163,390>>,
    <<165,391>>, <<166,392>>, <<167,393>>, <<169,394>>, <<170,395>>,
    <<171,396>>, <<172,397>>, <<173,398>>, <<174,399>>, <<176,400>>,
    <<177,401>>, <<178,402>>, <<179,403>>, <<180,404>>, <<181,405>>,
    <<182,406>>, <<183,407>>, <<184,408>>, <<185,409>>, <<186,410>>,
    <<187,411>>, <<188,412>>, <<189,413>>, <<190,414>>, <<191,415>>,
    <<192,416>>, <<193,417>>, <<194,418>>, <<196,419>>, <<198,420>>,
    <<201,421>>, <<202,422>>, <<203,423>>, <<204,424>>, <<205,425>>,
    <<206,426>>, <<207,427>>, <<208,428>>, <<209,429>>, <<210,430>>,
    <<211,431>>, <<212,432>>, <<213,433>>, <<214,434>>, <<215,435>>,
    <<216,436>>, <<217,437>>, <<218,438>>, <<219,439>>, <<220,440>>,
    <<221,441>>, <<222,442>>, <<223,443>>, <<224,444>>, <<225,445>>,
    <<226,446>>, <<227,447>>, <<228,448>>, <<229,449>>, <<230,450>>,
    <<231,451>>, <<232,452>>, <<233,453>>, <<234,454>>, <<235,455>>,
    <<236,456>>, <<237,457>>, <<238,458>>, <<239,459>>, <<240,460>>,
    <<241,461>>, <<242,462>>, <<243,463>>, <<244,464>>, <<245,465>>,
    <<246,466>>, <<247,467>>
  >>

MIDLINE_INDICES ==
  <<
    0, 1, 2, 4, 5, 6, 8, 9, 10, 11, 12, 13, 14, 15, 16, 17, 18, 19, 94, 151,
    152, 164, 168, 175, 195, 197, 199, 200
  >>

RangeOf(s) == {s[i] : i \in 1..Len(s)}

\* A variant of LEFT_INDICES that takes every member of each pair.
LEFT_INDICES_BothMembers ==
  [i \in 1..(2 * Len(LEFT_RIGHT_PAIRS)) |->
     LEFT_RIGHT_PAIRS[(i + 1) \div 2][2 - (i % 2)]]

LEFT_INDICES == [i \in 1..Len(LEFT_RIGHT_PAIRS) |-> LEFT_RIGHT_PAIRS[i][1]]

RIGHT_INDICES == [i \in 1..Len(LEFT_RIGHT_PAIRS) |-> LEFT_RIGHT_PAIRS[i][2]]

LEFT_LANDMARKS == RangeOf(LEFT_INDICES)

RIGHT_LANDMARKS == RangeOf(RIGHT_INDICES)

MIDLINE_LANDMARKS == RangeOf(MIDLINE_INDICES)

ALL_LANDMARKS == 0..467

(***************************************************************************)
(* services/calculate.py: helper mappings                                  *)
(***************************************************************************)
\* A Python dict is a function on its key set.  A run of assignments
\* d[k] = v, given as a sequence of <<k, v>>, leaves each key with the value
\* of the last assignment to it.
EmptyDict == [k \in {} |-> 0]

DictGet(d, k) == IF k \in DOMAIN d THEN Some(d[k]) ELSE None

MaxOf(S) == CHOOSE x \in S : \A y \in S : y <= x

DictOf(assignments) ==
  [k \in {assignments[j][1] : j \in DOMAIN assignments} |->
     assignments[MaxOf({j \in DOMAIN assignments : assignments[j][1] = k})][2]]

\* A variant of the loop that records left -> right only.
FlipAssignments_LeftOnly ==
  [j \in 1..Len(LEFT_RIGHT_PAIRS) |->
     <<LEFT_RIGHT_PAIRS[j][1], LEFT_RIGHT_PAIRS[j][2]>>]

\* The loop over the pairs: _FLIP_MAP[left] = right, then
\* _FLIP_MAP[right] = left, pair after pair.
FlipAssignments ==
  [j \in 1..(2 * Len(LEFT_RIGHT_PAIRS)) |->
     LET pair == LEFT_RIGHT_PAIRS[(j + 1) \div 2]
     IN IF j % 2 = 1 THEN <<pair[1], pair[2]>> ELSE <<pair[2], pair[1]>>]

FLIP_MAP == DictOf(FlipAssignments)

SIDE_TO_LANDMARKS == [left |-> LEFT_LANDMARKS, right |-> RIGHT_LANDMARKS]

(***************************************************************************)
(* services/calculate.py: internal helpers                                 *)
(***************************************************************************)
\* str.lower() on the spellings of a side or of a warp method that a caller
\* may pass.
Lower(s) ==
  CASE s = "LEFT" -> "left"
    [] s = "Left" -> "left"
    [] s = "RIGHT" -> "right"
    [] s = "Right" -> "right"
    [] s = "DELAUNAY" -> "delaunay"
    [] s = "Delaunay" -> "delaunay"
    [] s = "TPS" -> "tps"
    [] OTHER -> s

resolve_droopy_side(droopy) ==
  Lower(IF droopy = None \/ droopy = Some("") THEN "left" ELSE Val(droopy))

resolve_healthy_side_Same(droopy) == resolve_droopy_side(droopy)

resolve_healthy_side(droopy) ==
  IF resolve_droopy_side(droopy) = "left" THEN "right" ELSE "left"

belongs_to_side(index, side) == index \in SIDE_TO_LANDMARKS[side]

flipped_index(index) == DictGet(FLIP_MAP, index)

classify_indices_KnownOnly(indices, droopy_side) ==
  LET healthy_side == IF droopy_side = "left" THEN "right" ELSE "left"
  IN [healthy |-> {idx \in indices : idx \notin MIDLINE_LANDMARKS
                      /\ ~belongs_to_side(idx, droopy_side)
                      /\ belongs_to_side(idx, healthy_side)},
      droopy |-> {idx \in indices : idx \notin MIDLINE_LANDMARKS
                     /\ belongs_to_side(idx, droopy_side)},
      midline |-> {idx \in indices : idx \in MIDLINE_LANDMARKS}]

classify_indices(indices, droopy_side) ==
  LET healthy_side == IF droopy_side = "left" THEN "right" ELSE "left"
      isMid(idx) == idx \in MIDLINE_LANDMARKS
      isDroopy(idx) == ~isMid(idx) /\ belongs_to_side(idx, droopy_side)
      isHealthy(idx) ==
        ~isMid(idx) /\ ~isDroopy(idx) /\ belongs_to_side(idx, healthy_side)
  IN [healthy |-> {idx \in indices : isHealthy(idx)},
      droopy |-> {idx \in indices : isDroopy(idx)},
      midline |-> {idx \in indices : ~isDroopy(idx) /\ ~isHealthy(idx)}]

select_counterpart_Self(healthy_index, droopy_side) ==
  IF flipped_index(healthy_index) = None THEN None ELSE Some(healthy_index)

select_counterpart(healthy_index, droopy_side) ==
  LET counterpart == flipped_index(healthy_index)
  IN IF counterpart = None THEN None
     ELSE IF belongs_to_side(Val(counterpart), droopy_side) THEN counterpart
     ELSE IF belongs_to_side(healthy_index, droopy_side)
          THEN Some(healthy_index)
     ELSE None

(***************************************************************************)
(* Geometry.  A point is a tuple <<x, y>> or <<x, y, z>> of grid values.   *)
(* A Line2D is a record of an origin and a direction; the direction is an  *)
(* integer vector u standing for the unit vector u / |u|, so every         *)
(* projection below is the program's value multiplied by |u| (and a        *)
(* Cartesian delta by |u|^2): zero tests, signs and ratios are unchanged.  *)
(***************************************************************************)
Dot(u, v) == u[1] * v[1] + u[2] * v[2]

Cross(u, v) == u[1] * v[2] - u[2] * v[1]

Sub(p, q) == <<p[1] - q[1], p[2] - q[2]>>

\* Twice the signed area of the triangle a, b, c.
Area2(a, b, c) == Cross(Sub(b, a), Sub(c, a))

Line2D(origin, direction) == [origin |-> origin, direction |-> direction]

perpendicular_line(point, midline) ==
  LET direction == midline.direction
      perp_direction == <<direction[2], 0 - direction[1]>>
  IN Line2D(<<point[1], point[2]>>, perp_direction)

cartesian_delta(midline, mid_delta, perp_delta) ==
  LET direction == midline.direction
      perp_direction == <<direction[2], 0 - direction[1]>>
      delta_vec == <<mid_delta * direction[1] + perp_delta * perp_direction[1],
                     mid_delta * direction[2] + perp_delta * perp_direction[2]>>
  IN <<delta_vec[1], 0 - delta_vec[2]>>

\* A variant that returns the two components in the opposite order.
line_projections_Swapped(point, midline) ==
  LET direction == midline.direction
      perp_direction == <<direction[2], 0 - direction[1]>>
      rel == <<point[1] - midline.origin[1], point[2] - midline.origin[2]>>
  IN <<Dot(rel, perp_direction), Dot(rel, direction)>>

\* (midline_component, perpendicular_component) of a point.
line_projections(point, midline) ==
  LET direction == midline.direction
      perp_direction == <<direction[2], 0 - direction[1]>>
      rel == <<point[1] - midline.origin[1], point[2] - midline.origin[2]>>
  IN <<Dot(rel, direction), Dot(rel, perp_direction)>>

(***************************************************************************)
(* services/calculate.py: compute_asymmetry_metrics                        *)
(* A landmark array is a function on 0..n-1; a call ends by returning an   *)
(* AsymmetryMetrics (ret) or by raising (exc).                             *)
(***************************************************************************)
ArrLen(a) == Cardinality(DOMAIN a)

Sorted_Descending(S) ==
  [i \in 1..Cardinality(S) |->
     CHOOSE x \in S : Cardinality({y \in S : y > x}) = i - 1]

\* sorted() of a set: its members in ascending order.
Sorted(S) ==
  [i \in 1..Cardinality(S) |->
     CHOOSE x \in S : Cardinality({y \in S : y < x}) = i - 1]

Depth(coords) == IF Len(coords) >= 3 THEN Some(coords[3]) ELSE None

LandmarkDisplacement(healthy_idx, droopy_idx, midline, landmarks) ==
  LET healthy_coords == landmarks[healthy_idx]
      droopy_coords == landmarks[droopy_idx]
      healthy_xy == SubSeq(healthy_coords, 1, 2)
      droopy_xy == SubSeq(droopy_coords, 1, 2)
      perp_line == perpendicular_line(healthy_xy, midline)
      healthy == line_projections(healthy_xy, midline)
      droopy == line_projections(droopy_xy, midline)
      perp_delta == healthy[2] - droopy[2]
      mid_delta == healthy[1] - droopy[1]
      dxy == cartesian_delta(midline, mid_delta, perp_delta)
  IN [healthy_index |-> healthy_idx,
      droopy_index |-> droopy_idx,
      healthy_coords |-> healthy_coords,
      droopy_coords |-> droopy_coords,
      healthy_depth |-> Depth(healthy_coords),
      droopy_depth |-> Depth(droopy_coords),
      perpendicular_line |-> perp_line,
      healthy_perp_offset |-> healthy[2],
      droopy_perp_offset |-> droopy[2],
      perpendicular_delta |-> perp_delta,
      healthy_mid_offset |-> healthy[1],
      droopy_mid_offset |-> droopy[1],
      midline_delta |-> mid_delta,
      x_delta |-> dxy[1],
      y_delta |-> dxy[2],
      weighted_delta |-> perp_delta * mid_delta]

MidlineAnchorMetric(anchor_idx, midline, landmarks) ==
  LET coords == landmarks[anchor_idx]
      xy == SubSeq(coords, 1, 2)
  IN [index |-> anchor_idx,
      coords |-> coords,
      depth |-> Depth(coords),
      perpendicular_line |-> perpendicular_line(xy, midline),
      perpendicular_offset |-> line_projections(xy, midline)[2]]

\* The loop over sorted(healthy_indices): the displacements so far, or the
\* IndexError of the first subscript that is out of range.
RECURSIVE displacement_loop(_, _, _, _, _)
displacement_loop(todo, droopy_side, midline, landmarks, acc) ==
  IF todo = <<>> THEN [exc |-> None, ret |-> acc]
  ELSE LET healthy_idx == Head(todo)
           droopy_idx == select_counterpart(healthy_idx, droopy_side)
       IN IF droopy_idx = None \/ Val(droopy_idx) >= ArrLen(landmarks)
          THEN displacement_loop(Tail(todo), droopy_side, midline, landmarks, acc)
          ELSE IF healthy_idx \notin DOMAIN landmarks
          THEN [exc |-> Some("IndexError"), ret |-> acc]
          ELSE displacement_loop(
                 Tail(todo), droopy_side, midline, landmarks,
                 Append(acc, LandmarkDisplacement(
                               healthy_idx, Val(droopy_idx), midline, landmarks)))

RECURSIVE anchor_loop(_, _, _, _)
anchor_loop(todo, midline, landmarks, acc) ==
  IF todo = <<>> THEN acc
  ELSE IF Head(todo) >= ArrLen(landmarks)
  THEN anchor_loop(Tail(todo), midline, landmarks, acc)
  ELSE anchor_loop(Tail(todo), midline, landmarks,
                   Append(acc, MidlineAnchorMetric(Head(todo), midline, landmarks)))

AsymmetryMetrics(droopy_side, healthy_side, displacements, midline_anchors) ==
  [droopy_side |-> droopy_side,
   healthy_side |-> healthy_side,
   displacements |-> displacements,
   midline_anchors |-> midline_anchors]

\* droopy: cfg.runtime.droopy; midline, landmarks: optional values;
\* tracked_indices: a sequence of integers.
compute_asymmetry_metrics(droopy, midline, tracked_indices, landmarks) ==
  IF midline = None \/ landmarks = None \/ ArrLen(Val(landmarks)) = 0
  THEN [exc |-> None,
        ret |-> Some(AsymmetryMetrics(resolve_droopy_side(droopy),
                                      resolve_healthy_side(droopy), <<>>, <<>>))]
  ELSE
    LET droopy_side == resolve_droopy_side(droopy)
        healthy_side == resolve_healthy_side(droopy)
        lm == Val(landmarks)
        tracked_set == {idx \in RangeOf(tracked_indices) :
                          0 <= idx /\ idx < ArrLen(lm)}
        classes == classify_indices(tracked_set, droopy_side)
        partners ==
          {Val(flipped_index(idx)) :
             idx \in {i \in classes.droopy :
                        /\ flipped_index(i) # None
                        /\ belongs_to_side(Val(flipped_index(i)), healthy_side)}}
        healthy_indices == classes.healthy \cup partners
        loop == displacement_loop(Sorted(healthy_indices), droopy_side,
                                  Val(midline), lm, <<>>)
    IN IF loop.exc # None THEN [exc |-> loop.exc, ret |-> None]
       ELSE [exc |-> None,
             ret |-> Some(AsymmetryMetrics(
                       droopy_side, healthy_side, loop.ret,
                       anchor_loop(Sorted(classes.midline), Val(midline), lm, <<>>)))]

(***************************************************************************)
(* services/methods/mesh.py                                                *)
(* An array of points is a record of its numpy shape and its rows, a       *)
(* function on 0..n-1.  A TriangleMesh is its sequence of index triples.   *)
(***************************************************************************)
PointArray(shape, rows) == [shape |-> shape, rows |-> rows]

Returns(v) == [exc |-> None, ret |-> Some(v)]

Raises(e) == [exc |-> Some(e), ret |-> None]

\* d lies strictly inside the circle through a, b, c.
InCircle(a, b, c, d) ==
  LET ax == a[1] - d[1]
      ay == a[2] - d[2]
      bx == b[1] - d[1]
      by == b[2] - d[2]
      cx == c[1] - d[1]
      cy == c[2] - d[2]
      det == (ax * ax + ay * ay) * (bx * cy - cx * by)
             - (bx * bx + by * by) * (ax * cy - cx * ay)
             + (cx * cx + cy * cy) * (ax * by - bx * ay)
  IN IF Area2(a, b, c) > 0 THEN det > 0 ELSE det < 0

Sign(x) == IF x > 0 THEN 1 ELSE IF x < 0 THEN 0 - 1 ELSE 0

\* The segments p1 p2 and p3 p4 cross at a point interior to both.
ProperCross(p1, p2, p3, p4) ==
  /\ Sign(Area2(p1, p2, p3)) * Sign(Area2(p1, p2, p4)) < 0
  /\ Sign(Area2(p3, p4, p1)) * Sign(Area2(p3, p4, p2)) < 0

\* The centroid of triangle s lies strictly inside triangle t (coordinates
\* multiplied by 3 to stay whole).
CentroidInside(s, t) ==
  LET g == <<s[1][1] + s[2][1] + s[3][1], s[1][2] + s[2][2] + s[3][2]>>
      a == <<3 * t[1][1], 3 * t[1][2]>>
      b == <<3 * t[2][1], 3 * t[2][2]>>
      c == <<3 * t[3][1], 3 * t[3][2]>>
      s1 == Sign(Area2(a, b, g))
      s2 == Sign(Area2(b, c, g))
      s3 == Sign(Area2(c, a, g))
  IN s1 # 0 /\ s1 = s2 /\ s2 = s3

Edges(t) == {<<t[1], t[2]>>, <<t[2], t[3]>>, <<t[3], t[1]>>}

\* Two triangles (triples of points) have interior points in common.
Overlap(s, t) ==
  \/ CentroidInside(s, t)
  \/ CentroidInside(t, s)
  \/ \E e \in Edges(s), f \in Edges(t) : ProperCross(e[1], e[2], f[1], f[2])

RECURSIVE SetToSeq(_)
SetToSeq(S) ==
  IF S = {} THEN <<>>
  ELSE LET x == CHOOSE y \in S : TRUE IN <<x>> \o SetToSeq(S \ {x})

\* scipy.spatial.Delaunay over the rows of pts: the triangulations whose
\* triangles have no point strictly inside their circumcircle (Qhull settles
\* ties between cocircular points either way), or QhullError when no three
\* points span a triangle.
Delaunay(pts) ==
  LET n == ArrLen(pts)
      Tri(t) == <<pts[t[1]], pts[t[2]], pts[t[3]]>>
      triples == {t \in (0..(n - 1)) \X (0..(n - 1)) \X (0..(n - 1)) :
                    t[1] < t[2] /\ t[2] < t[3]}
      good == {t \in triples :
                 /\ Area2(pts[t[1]], pts[t[2]], pts[t[3]]) # 0
                 /\ \A d \in 0..(n - 1) :
                      ~InCircle(pts[t[1]], pts[t[2]], pts[t[3]], pts[d])}
      disjoint(T) == \A s \in T, t \in T : s # t => ~Overlap(Tri(s), Tri(t))
      meshes == {T \in SUBSET good :
                   /\ disjoint(T)
                   /\ \A t \in good \ T : ~disjoint(T \cup {t})}
  IN IF good = {} THEN {Raises("QhullError")}
     ELSE {Returns(SetToSeq(T)) : T \in meshes}

\* build_mesh: the outcomes the call may have.
build_mesh(points) ==
  IF Len(points.shape) # 2 \/ points.shape[2] # 2 THEN {Raises("ValueError")}
  ELSE IF points.shape[1] < 3 THEN {Raises("ValueError")}
  ELSE Delaunay(points.rows)

(***************************************************************************)
(* services/methods/warp.py                                                *)
(* An image is a record of its height, its width and its pixels, a         *)
(* function on <<x, y>> with x the column and y the row.  Normalised       *)
(* coordinates are counted in steps of 1/NormOne.                          *)
(***************************************************************************)
Pixels(img) == (0..(img.w - 1)) \X (0..(img.h - 1))

Image(h, w, px) == [h |-> h, w |-> w, px |-> px]

\* Pixel values computed in floating point are kept as exact fractions
\* <<numerator, denominator>> in lowest terms with a positive denominator.
RECURSIVE GCD(_, _)
GCD(m, n) == IF n = 0 THEN m ELSE GCD(n, m % n)

Abs(x) == IF x < 0 THEN 0 - x ELSE x

Q(n, d) ==
  LET g == GCD(Abs(n), Abs(d))
      s == IF d < 0 THEN 0 - 1 ELSE 1
  IN <<(s * n) \div g, (s * d) \div g>>

QInt(n) == <<n, 1>>

QAdd(x, y) ==
  LET g == GCD(x[2], y[2])
  IN Q(x[1] * (y[2] \div g) + y[1] * (x[2] \div g), (x[2] \div g) * y[2])

QMul(x, y) == Q(x[1] * y[1], x[2] * y[2])

QLess(x, y) == x[1] * y[2] < y[1] * x[2]

\* The least weight that line 101 leaves is 1 / WeightFloorDen (1e-6).
WeightFloorDen == 1000000

\* A mask value or a blended pixel is kept exactly as c + e / WeightFloorDen
\* with fractions c and e.
E(c, e) == [c |-> c, e |-> e]

QNeg(x) == <<0 - x[1], x[2]>>

\* The part e / WeightFloorDen is smaller than any difference between c and
\* a whole number other than c.
Small(v) == v.c[2] * Abs(v.e[1]) < WeightFloorDen * v.e[2]

\* np.clip(v, lo, hi) for whole numbers lo <= hi.
EClip(v, lo, hi) ==
  CASE Small(v) ->
    IF QLess(v.c, QInt(lo)) \/ (v.c = QInt(lo) /\ v.e[1] < 0)
    THEN E(QInt(lo), QInt(0))
    ELSE IF QLess(QInt(hi), v.c) \/ (v.c = QInt(hi) /\ v.e[1] > 0)
    THEN E(QInt(hi), QInt(0))
    ELSE v

\* astype(uint8) of a value already clipped to 0..255: the fraction is cut
\* off.
ETrunc(v) ==
  CASE Small(v) ->
    IF v.c[1] % v.c[2] = 0 /\ v.e[1] < 0 THEN (v.c[1] \div v.c[2]) - 1
    ELSE v.c[1] \div v.c[2]

\* The frames of the warp engine are FrameSize pixels square, and a
\* normalised coordinate is counted in steps of 1/FrameSize, so that pixel
\* coordinates are whole.
FrameSize == 3

NormOne == FrameSize

to_pixel(points, width, height) ==
  [i \in DOMAIN points |->
     <<(points[i][1] * width) \div NormOne,
       ((NormOne - points[i][2]) * height) \div NormOne>>]

\* numpy subscript a[i] of an array of n rows: a negative i counts from the
\* end, anything else outside 0..n-1 is an IndexError.
IndexOk(n, i) == 0 - n <= i /\ i < n

Wrap(n, i) == IF i < 0 THEN i + n ELSE i

\* cv2.BORDER_REFLECT_101 of coordinate i for an axis of n pixels.
Reflect101(i, n) ==
  IF n = 1 THEN 0
  ELSE LET period == 2 * (n - 1)
           m == i % period
       IN IF m < n THEN m ELSE period - m

\* cv2.getAffineTransform followed by cv2.warpAffine with INTER_LINEAR and
\* BORDER_REFLECT_101: the pixel under q is the bilinear sample of the frame
\* at the point that the affine map of src_tri onto dst_tri carries to q.
\* When the three source points or the three destination points are
\* collinear the linear system is singular, OpenCV's solver yields the zero
\* matrix, and every pixel samples the frame at (0, 0).
warp_affine(frame, src_tri, dst_tri) ==
  LET a == dst_tri[1]
      b == dst_tri[2]
      c == dst_tri[3]
      d0 == Area2(a, b, c)
      sg == IF d0 < 0 THEN 0 - 1 ELSE 1
      det == sg * d0
      singular == Area2(src_tri[1], src_tri[2], src_tri[3]) = 0 \/ d0 = 0
      At(x, y) == frame.px[<<Reflect101(x, frame.w), Reflect101(y, frame.h)>>]
      Sample(q) ==
        LET s == sg * Cross(Sub(q, a), Sub(c, a))
            t == sg * Cross(Sub(b, a), Sub(q, a))
            nx == src_tri[1][1] * det + s * (src_tri[2][1] - src_tri[1][1])
                    + t * (src_tri[3][1] - src_tri[1][1])
            ny == src_tri[1][2] * det + s * (src_tri[2][2] - src_tri[1][2])
                    + t * (src_tri[3][2] - src_tri[1][2])
            x0 == nx \div det
            y0 == ny \div det
            rx == nx % det
            ry == ny % det
        IN Q((det - rx) * (det - ry) * At(x0, y0)
               + rx * (det - ry) * At(x0 + 1, y0)
               + (det - rx) * ry * At(x0, y0 + 1)
               + rx * ry * At(x0 + 1, y0 + 1),
             det * det)
  IN [q \in Pixels(frame) |->
        IF singular THEN QInt(frame.px[<<0, 0>>]) ELSE Sample(q)]

\* cv2.fillConvexPoly: the pixels inside or on the border of the triangle;
\* for collinear vertices, the pixels of the segment they span.
fill_convex_poly(frame, tri) ==
  LET a == tri[1]
      b == tri[2]
      c == tri[3]
      Between(lo1, lo2, lo3, v) ==
        /\ \E e \in {lo1, lo2, lo3} : e <= v
        /\ \E e \in {lo1, lo2, lo3} : v <= e
      inside(q) ==
        IF Area2(a, b, c) # 0
        THEN \/ /\ Area2(a, b, q) >= 0
                /\ Area2(b, c, q) >= 0
                /\ Area2(c, a, q) >= 0
             \/ /\ Area2(a, b, q) <= 0
                /\ Area2(b, c, q) <= 0
                /\ Area2(c, a, q) <= 0
        ELSE /\ Area2(a, b, q) = 0
             /\ Area2(a, c, q) = 0
             /\ Area2(b, c, q) = 0
             /\ Between(a[1], b[1], c[1], q[1])
             /\ Between(a[2], b[2], c[2], q[2])
  IN {q \in Pixels(frame) : inside(q)}

\* The loop over mesh.iter_indices(): the accumulator, the weight and, for
\* each pixel, the positions in the mesh of the triangles added to it; or
\* the IndexError of a row that names no point.
RECURSIVE triangle_loop(_, _, _, _, _, _)
triangle_loop(frame, src_pixels, dst_pixels, mesh, k, st) ==
  IF k > Len(mesh) THEN st
  ELSE
    LET tri == mesh[k]
        n == ArrLen(src_pixels)
        m == ArrLen(dst_pixels)
    IN IF \E j \in 1..3 : ~IndexOk(n, tri[j]) \/ ~IndexOk(m, tri[j])
       THEN [st EXCEPT !.exc = Some("IndexError")]
       ELSE
         LET src_tri == [j \in 1..3 |-> src_pixels[Wrap(n, tri[j])]]
             dst_tri == [j \in 1..3 |-> dst_pixels[Wrap(m, tri[j])]]
             warped_full == warp_affine(frame, src_tri, dst_tri)
             tri_mask == fill_convex_poly(frame, dst_tri)
         IN triangle_loop(
              frame, src_pixels, dst_pixels, mesh, k + 1,
              [st EXCEPT
                 !.accumulator =
                   [q \in Pixels(frame) |->
                      IF q \in tri_mask THEN QAdd(@[q], warped_full[q])
                      ELSE @[q]],
                 !.weight =
                   [q \in Pixels(frame) |->
                      IF q \in tri_mask THEN @[q] + 1 ELSE @[q]],
                 !.added =
                   [q \in Pixels(frame) |->
                      IF q \in tri_mask THEN @[q] \cup {k} ELSE @[q]]])

\* piecewise_affine_warp: the warped image and the mask, with the sums they
\* were computed from.  Line 101 raises the weight of a pixel that no
\* triangle covers to 1 / WeightFloorDen before the division and before the
\* mask is taken from it; the accumulator is 0 there.
piecewise_affine_warp(frame, src_pixels, dst_pixels, mesh) ==
  LET st == triangle_loop(
              frame, src_pixels, dst_pixels, mesh, 1,
              [exc |-> None,
               accumulator |-> [q \in Pixels(frame) |-> QInt(0)],
               weight |-> [q \in Pixels(frame) |-> 0],
               added |-> [q \in Pixels(frame) |-> {}]])
  IN [exc |-> st.exc,
      accumulator |-> st.accumulator,
      weight |-> st.weight,
      added |-> st.added,
      warped |-> [q \in Pixels(frame) |->
                    IF st.weight[q] = 0 THEN QInt(0)
                    ELSE QMul(st.accumulator[q], <<1, st.weight[q]>>)],
      mask |-> [q \in Pixels(frame) |->
                  IF st.weight[q] = 0 THEN [c |-> 0, e |-> 1]
                  ELSE [c |-> 1, e |-> 0]]]

(***************************************************************************)
(* services/methods/blend.py                                               *)
(***************************************************************************)
\* A variant without the test of line 62.
compute_kernel_NoZeroTest(feather, kernel, size) ==
  IF kernel # None /\ Val(kernel) > 1
  THEN IF Val(kernel) % 2 = 1 THEN Val(kernel) ELSE Val(kernel) + 1
  ELSE LET scaled == (feather[1] * size) \div feather[2]
           k == IF scaled > 3 THEN scaled ELSE 3
       IN IF k % 2 = 0 THEN k + 1 ELSE k

\* feather is a fraction <<n, d>>, kernel an optional whole number.
compute_kernel(feather, kernel, size) ==
  IF kernel # None /\ Val(kernel) > 1
  THEN IF Val(kernel) % 2 = 1 THEN Val(kernel) ELSE Val(kernel) + 1
  ELSE IF feather[1] <= 0 THEN 1
  ELSE LET scaled == (feather[1] * size) \div feather[2]
           k == IF scaled > 3 THEN scaled ELSE 3
       IN IF k % 2 = 0 THEN k + 1 ELSE k

\* The coefficients cv2.GaussianBlur uses for a kernel of k <= 7 taps when
\* sigma is 0, over their sum.
gaussian_taps(k) ==
  CASE k = 1 -> <<1>>
    [] k = 3 -> <<1, 2, 1>>
    [] k = 5 -> <<1, 4, 6, 4, 1>>
    [] k = 7 -> <<2, 7, 14, 18, 14, 7, 2>>

RECURSIVE SumSeq(_)
SumSeq(s) == IF s = <<>> THEN 0 ELSE Head(s) + SumSeq(Tail(s))

\* cv2.GaussianBlur of an array of whole numbers.
gaussian_blur(h, w, mask, k) ==
  LET taps == gaussian_taps(k)
      r == (k - 1) \div 2
      total == SumSeq(taps)
      At(x, y) == mask[<<Reflect101(x, w), Reflect101(y, h)>>]
      term(q, n) ==
        LET i == ((n - 1) % k) + 1
            j == ((n - 1) \div k) + 1
        IN taps[i] * taps[j] * At(q[1] + i - 1 - r, q[2] + j - 1 - r)
  IN [q \in DOMAIN mask |->
        Q(SumSeq([n \in 1..(k * k) |-> term(q, n)]), total * total)]

DefaultFeather == <<2, 100>>

\* Lines 44-51: the mask as float, blurred with a kernel of more than one
\* tap, clipped.  The mask has the parts c and e of each value as whole
\* numbers.
blurred_mask(h, w, mask, kernel_size) ==
  IF kernel_size > 1
  THEN {[q \in DOMAIN mask |-> EClip(E(bc[q], be[q]), 0, 1)] :
          bc \in {gaussian_blur(h, w, mc, kernel_size) :
                    mc \in {[q \in DOMAIN mask |-> mask[q].c]}},
          be \in {gaussian_blur(h, w, me, kernel_size) :
                    me \in {[q \in DOMAIN mask |-> mask[q].e]}}}
  ELSE {[q \in DOMAIN mask |->
           EClip(E(QInt(mask[q].c), QInt(mask[q].e)), 0, 1)]}

\* A variant that weighs the original by the mask and the warped value by
\* the rest.
blended_Swapped(w, o, m) ==
  ETrunc(EClip(E(QAdd(QMul(QInt(o), m.c),
                      QMul(w, QAdd(QInt(1), QNeg(m.c)))),
                 QMul(QAdd(QInt(o), QNeg(w)), m.e)),
               0, 255))

\* Lines 52-56 for one pixel: warped value w, original value o, mask m.
blended(w, o, m) ==
  ETrunc(EClip(E(QAdd(QMul(w, m.c),
                      QMul(QInt(o), QAdd(QInt(1), QNeg(m.c)))),
                 QMul(QAdd(w, QInt(0 - o)), m.e)),
               0, 255))

\* params is a record with the optional entries feather and feather_kernel,
\* or None.
blend_with_mask(original, warped, mask, params) ==
  LET feather == IF params = None \/ Val(params).feather = None
                 THEN DefaultFeather ELSE Val(Val(params).feather)
      kernel == IF params = None THEN None ELSE Val(params).feather_kernel
      size == IF original.h > original.w THEN original.h ELSE original.w
  IN CHOOSE bl \in
       UNION {{[kernel_size |-> kernel_size,
                mask_f |-> mask_f,
                image |-> Image(original.h, original.w,
                                [q \in Pixels(original) |->
                                   blended(warped[q], original.px[q],
                                           mask_f[q])])] :
                 mask_f \in blurred_mask(original.h, original.w, mask,
                                         kernel_size)} :
              kernel_size \in {compute_kernel(feather, kernel, size)}} : TRUE

(***************************************************************************)
(* warp_face                                                               *)
(***************************************************************************)
\* Lines 42-53: the error the argument checks raise, or None.
warp_face_MethodUnchecked(frame, src_arr, dst_arr, method) ==
  IF frame = None THEN Some("ValueError")
  ELSE IF \/ src_arr.shape # dst_arr.shape
          \/ Len(src_arr.shape) # 2
          \/ src_arr.shape[2] # 2
       THEN Some("ValueError")
  ELSE IF src_arr.shape[1] < 3 THEN Some("ValueError")
  ELSE None

warp_face_checks(frame, src_arr, dst_arr, method) ==
  IF frame = None THEN Some("ValueError")
  ELSE IF \/ src_arr.shape # dst_arr.shape
          \/ Len(src_arr.shape) # 2
          \/ src_arr.shape[2] # 2
       THEN Some("ValueError")
  ELSE IF src_arr.shape[1] < 3 THEN Some("ValueError")
  ELSE IF Lower(method) # "delaunay" THEN Some("NotImplementedError")
  ELSE None

\* What a call of warp_face leaves behind: the exception or the image, the
\* stages that ran, and the result of piecewise_affine_warp if it returned.
WarpOutcome(exc, ret, ran, mesh, pw, bl) ==
  [exc |-> exc, ret |-> ret, ran |-> ran, mesh |-> mesh, pw |-> pw, bl |-> bl]

\* Lines 62-64, given the mesh m and the result pw of piecewise_affine_warp;
\* pre lists the stages that ran before.
warp_face_finish(f, pre, m, pw, blend_params) ==
  IF pw.exc # None
  THEN WarpOutcome(pw.exc, None, pre \o <<"piecewise_affine_warp">>,
                   Some(m), None, None)
  ELSE LET bl == blend_with_mask(f, pw.warped, pw.mask, blend_params)
       IN WarpOutcome(None, Some(bl.image),
                      pre \o <<"piecewise_affine_warp", "blend_with_mask">>,
                      Some(m), Some(pw), Some(bl))

\* The outcomes a call of warp_face may have (one for each mesh that
\* build_mesh may return).
warp_face(frame, src_arr, dst_arr, mesh, method, blend_params) ==
  LET bad == warp_face_checks(frame, src_arr, dst_arr, method)
      pre == IF mesh = None THEN <<"build_mesh">> ELSE <<>>
  IN IF bad # None
     THEN {WarpOutcome(bad, None, <<>>, None, None, None)}
     ELSE UNION {
       IF b.exc # None
       THEN {WarpOutcome(b.exc, None, pre, None, None, None)}
       ELSE {warp_face_finish(Val(frame), pre, Val(b.ret), pw, blend_params) :
               pw \in {piecewise_affine_warp(
                         Val(frame),
                         to_pixel(src_arr.rows, Val(frame).w, Val(frame).h),
                         to_pixel(dst_arr.rows, Val(frame).w, Val(frame).h),
                         Val(b.ret))}} :
       b \in (IF mesh = None THEN build_mesh(src_arr)
              ELSE {Returns(Val(mesh))})}

(***************************************************************************)
(* services/midline.py                                                     *)
(***************************************************************************)
Midline_MIDLINE_INDICES_NoGlabella == <<152, 1, 10, 10>>

Midline_MIDLINE_INDICES == <<152, 1, 168, 10>>

\* A component of the direction that midsagittal_line returns is the number
\* num / sqrt(rad), or not a number, which is 0 / sqrt(0) here; a coordinate
\* of its origin is a fraction.
Surd(num, rad) == [num |-> num, rad |-> rad]

NaN == Surd(0, 0)

RECURSIVE Newton(_, _)
Newton(n, x) ==
  LET y == (x + n \div x) \div 2
  IN IF y >= x THEN x ELSE Newton(n, y)

\* The whole part of the square root of n.
ISqrt(n) == IF n = 0 THEN 0 ELSE Newton(n, n)

\* The square of a component that is a number, a fraction.
SquareOf(x) == Q(x.num * x.num, x.rad)

\* A component with the whole part of its root taken out where the root is
\* whole, so that a whole number n is Surd(n, 1).
Plain(x) ==
  IF x = NaN THEN NaN
  ELSE LET s == ISqrt(x.rad)
       IN IF s * s = x.rad /\ x.num % s = 0
          THEN Surd(x.num \div s, 1) ELSE x

\* pts.mean(axis=0) of four rows, from their sum.
Mean4(sum) == Q(sum, 4)

\* The integer vector v as the unit vector v / |v|.
UnitOf(v) ==
  LET g == GCD(Abs(v[1]), Abs(v[2]))
      x == v[1] \div g
      y == v[2] \div g
  IN <<Surd(x, x * x + y * y), Surd(y, x * x + y * y)>>

svd_first_row_Zero(centered) ==
  {<<Surd(0, 1), Surd(0, 1)>>}

\* vh[0] of np.linalg.svd(centered): a unit eigenvector of the largest
\* eigenvalue of [[a, b], [b, c]], the sums of the products of the centred
\* coordinates.  Its sign is not determined, and neither is its direction
\* when both eigenvalues are equal, as they are for coincident anchors;
\* the axes stand for the unit vectors that may come out then.  The
\* eigenvector is (2b, c - a + r) with r the root of (a - c)^2 + 4 b^2,
\* given here where r is whole, as it is for anchors on one line.
svd_first_row(centered) ==
  LET a == centered[1][1] * centered[1][1] + centered[2][1] * centered[2][1]
           + centered[3][1] * centered[3][1] + centered[4][1] * centered[4][1]
      b == centered[1][1] * centered[1][2] + centered[2][1] * centered[2][2]
           + centered[3][1] * centered[3][2] + centered[4][1] * centered[4][2]
      c == centered[1][2] * centered[1][2] + centered[2][2] * centered[2][2]
           + centered[3][2] * centered[3][2] + centered[4][2] * centered[4][2]
      disc == (a - c) * (a - c) + 4 * b * b
      r == ISqrt(disc)
      vs == CASE b = 0 /\ a = c -> {<<1, 0>>, <<0, 1>>}
              [] b = 0 /\ a > c -> {<<1, 0>>}
              [] b = 0 /\ a < c -> {<<0, 1>>}
              [] b # 0 /\ r * r = disc -> {<<2 * b, c - a + r>>}
  IN UNION {{UnitOf(v), UnitOf(<<0 - v[1], 0 - v[2]>>)} : v \in vs}

\* direction /= np.linalg.norm(direction); a zero norm leaves no number.
normalized(direction) ==
  LET n2 == QAdd(SquareOf(direction[1]), SquareOf(direction[2]))
  IN IF n2[1] = 0 THEN <<NaN, NaN>>
     ELSE [j \in 1..2 |->
             Surd(direction[j].num * n2[2],
                  direction[j].rad * n2[1] * n2[2])]

\* The outcomes of Midline.midsagittal_line for an optional landmark array.
\* The centred anchors are taken four times as large, which leaves the
\* direction as it is.
midsagittal_line(landmarks) ==
  IF landmarks = None \/ ArrLen(Val(landmarks)) = 0 THEN {None}
  ELSE IF \E k \in 1..4 :
            Midline_MIDLINE_INDICES[k] >= ArrLen(Val(landmarks))
  THEN {None}
  ELSE UNION {UNION {
         {Some(Line2D(<<Mean4(sum[1]), Mean4(sum[2])>>,
                      <<Plain(d[1]), Plain(d[2])>>)) :
            d \in {normalized(IF vh0[2].num < 0
                              THEN <<Surd(0 - vh0[1].num, vh0[1].rad),
                                     Surd(0 - vh0[2].num, vh0[2].rad)>>
                              ELSE vh0) :
                     vh0 \in svd_first_row(
                               [k \in 1..4 |-> <<4 * pts[k][1] - sum[1],
                                                 4 * pts[k][2] - sum[2]>>])}} :
         sum \in {<<pts[1][1] + pts[2][1] + pts[3][1] + pts[4][1],
                    pts[1][2] + pts[2][2] + pts[3][2] + pts[4][2]>>}} :
         pts \in {[k \in 1..4 |->
                     Val(landmarks)[Midline_MIDLINE_INDICES[k]]]}}

\* The line in the whole grid coordinates that the arithmetic of the pipeline
\* and of the calculator works in.  The pipeline's anchors lie on a vertical
\* line and have a whole centroid.
OnGrid(line) ==
  IF line = None THEN None
  ELSE LET whole(q) == CASE q[2] = 1 -> q[1]
           count(x) == CASE x.rad = 1 -> x.num
       IN Some(Line2D(<<whole(Val(line).origin[1]), whole(Val(line).origin[2])>>,
                      <<count(Val(line).direction[1]),
                        count(Val(line).direction[2])>>))

midsagittal_perpendicular(landmark, midline) ==
  IF landmark = None \/ midline = None THEN None
  ELSE Some(Line2D(<<Val(landmark)[1], Val(landmark)[2]>>,
                   <<0 - Val(midline).direction[2],
                     Val(midline).direction[1]>>))

(***************************************************************************)
(* services/landmarks.py and services/pipeline.py                          *)
(* Coordinates are counted in steps of 1/One.  A landmark array is held by *)
(* its rows at the indices in Sampled; its other rows are the same in      *)
(* every tracker result (RestRow) and lie inside the unit square.  Arrays  *)
(* live in a heap and are named by their address, so that two names of one *)
(* array see each other's writes.                                          *)
(***************************************************************************)
\* Grid value of the coordinate 1.0 that _clamp01 clamps to.
One == 4

\* smoothing_alpha is a multiple of 1/AlphaDen.
AlphaDen == 2

\* Points that the tracker yields with refine_landmarks.
TrackerLen == 478

\* The outer eye corners, a left/right pair.
Sampled == {33, 263}

RestRow(i) ==
  CASE i = 152 -> <<One \div 2, 0, 0>>
    [] i = 1 -> <<One \div 2, 1, 0>>
    [] i = 168 -> <<One \div 2, 1, 0>>
    [] i = 10 -> <<One \div 2, 2, 0>>
    [] OTHER -> <<One \div 4, 1, 0>>

\* The whole array that has the given rows at the sampled indices.
Expand(rows) ==
  [i \in 0..(TrackerLen - 1) |-> IF i \in DOMAIN rows THEN rows[i] ELSE RestRow(i)]

\* Division rounded to the nearest whole number, ties to even, as float
\* arithmetic rounds.
RoundHalfEven(n, d) ==
  LET q == n \div d
      r == n % d
  IN IF 2 * r < d THEN q
     ELSE IF 2 * r > d THEN q + 1
     ELSE IF q % 2 = 0 THEN q ELSE q + 1

\* A variant of the moving average that weighs the two arrays the other way
\* round.
ema_Swapped(alpha, prev, cur) ==
  [i \in DOMAIN cur |->
     [j \in 1..3 |->
        RoundHalfEven(alpha * cur[i][j] + (AlphaDen - alpha) * prev[i][j],
                      AlphaDen)]]

\* alpha * prev + (1 - alpha) * cur, alpha counted in steps of 1/AlphaDen.
ema(alpha, prev, cur) ==
  [i \in DOMAIN cur |->
     [j \in 1..3 |->
        RoundHalfEven(alpha * prev[i][j] + (AlphaDen - alpha) * cur[i][j],
                      AlphaDen)]]

Addr == 1..3

\* A detector that forgets its smoothed state when the tracker finds nothing.
detect_Reset(smooth_landmarks, heap, alpha, face) ==
  IF face = None
  THEN [ret |-> None, smooth_landmarks |-> None, heap |-> heap]
  ELSE
    LET a == CHOOSE x \in Addr : heap[x] = None
        new == IF smooth_landmarks = None THEN Val(face)
               ELSE ema(alpha, Val(heap[Val(smooth_landmarks)]), Val(face))
    IN [ret |-> Some(a), smooth_landmarks |-> Some(a),
        heap |-> [heap EXCEPT ![a] = Some(new)]]

\* FaceMeshDetector.detect, given what the tracker finds in the frame (None
\* or the rows of the raw array): the value returned, the new
\* _smooth_landmarks and the heap.
detect(smooth_landmarks, heap, alpha, face) ==
  IF face = None
  THEN [ret |-> None, smooth_landmarks |-> smooth_landmarks, heap |-> heap]
  ELSE
    LET a == CHOOSE x \in Addr : heap[x] = None
        new == IF smooth_landmarks = None THEN Val(face)
               ELSE ema(alpha, Val(heap[Val(smooth_landmarks)]), Val(face))
    IN [ret |-> Some(a), smooth_landmarks |-> Some(a),
        heap |-> [heap EXCEPT ![a] = Some(new)]]

\* Pipeline._detect_landmarks: the array process_frame works on and the new
\* _last_landmarks.
detect_landmarks(last_landmarks, ret) ==
  IF ret # None THEN [landmarks |-> ret, last_landmarks |-> ret]
  ELSE [landmarks |-> last_landmarks, last_landmarks |-> last_landmarks]

\* _mirror_landmarks_if_needed: a copy with x mirrored, or the array itself.
mirror_landmarks_if_needed(landmarks, hflip) ==
  IF landmarks = None \/ ~hflip THEN landmarks
  ELSE Some([i \in DOMAIN Val(landmarks) |->
               <<One - Val(landmarks)[i][1], Val(landmarks)[i][2],
                 Val(landmarks)[i][3]>>])

\* _compute_midline_overlays: the outcomes <<midline, perpendicular>>; the
\* midline is also what _last_midline becomes.
compute_midline_overlays(display_landmarks) ==
  IF display_landmarks = None THEN {<<None, None>>}
  ELSE {<<m, IF m = None THEN None
             ELSE midsagittal_perpendicular(Some(Val(display_landmarks)[61]), m)>> :
          m \in {OnGrid(line) : line \in midsagittal_line(display_landmarks)}}

pose_reference_indices == <<1, 33, 263, 152>>

\* pose_max_abs_z = 0.2 as a fraction.
pose_max_abs_z == <<1, 5>>

pose_within_limits(landmarks) ==
  IF landmarks = None THEN TRUE
  ELSE
    LET n == ArrLen(Val(landmarks))
        indices == {k \in 1..Len(pose_reference_indices) :
                      pose_reference_indices[k] < n}
        z(k) == Val(landmarks)[pose_reference_indices[k]][3]
        total == SumSeq([k \in 1..Len(pose_reference_indices) |->
                           IF k \in indices THEN z(k) ELSE 0])
        c == Cardinality(indices)
    IN IF indices = {} THEN TRUE
       ELSE \A k \in indices :
              Abs(c * z(k) - total) * pose_max_abs_z[2]
                <= c * One * pose_max_abs_z[1]

\* sorted() of a list: every occurrence is kept.
RECURSIVE SortedList(_)
SortedList(list) ==
  IF list = <<>> THEN <<>>
  ELSE LET m == CHOOSE x \in RangeOf(list) : \A y \in RangeOf(list) : x <= y
           k == CHOOSE i \in DOMAIN list : list[i] = m
       IN <<m>> \o SortedList(SubSeq(list, 1, k - 1)
                               \o SubSeq(list, k + 1, Len(list)))

healthy_with_midline_indices_DroopySide(tracked_indices, droopy) ==
  IF tracked_indices # <<>> THEN SortedList(tracked_indices)
  ELSE Sorted(SIDE_TO_LANDMARKS[resolve_droopy_side(droopy)]
              \cup MIDLINE_LANDMARKS)

healthy_with_midline_indices(tracked_indices, droopy) ==
  IF tracked_indices # <<>> THEN SortedList(tracked_indices)
  ELSE
    LET d == Lower(IF droopy = None \/ droopy = Some("") THEN "left"
                   ELSE Val(droopy))
        healthy == IF d = "left" THEN "right" ELSE "left"
        healthy_set == IF healthy = "right" THEN RIGHT_LANDMARKS
                       ELSE LEFT_LANDMARKS
    IN Sorted(healthy_set \cup MIDLINE_LANDMARKS)

default_displacement_indices ==
  <<291, 409, 17, 0, 13, 14, 33, 133, 263, 362, 386, 374, 334, 298, 10, 151>>

Clamp(v) == IF v < 0 THEN 0 ELSE IF v > One THEN One ELSE v

\* _clamp01 on a copy: the clamped point.
clamp01(p) == <<Clamp(p[1]), Clamp(p[2])>>

\* _clamp01 on a view of row i of an array: the rows after the write.  The
\* rows that are not sampled lie in the unit square, where the write
\* changes nothing.
clamp01_in_place(rows, i) ==
  IF i \in DOMAIN rows
  THEN [rows EXCEPT ![i] = <<Clamp(@[1]), Clamp(@[2]), @[3]>>]
  ELSE rows

RowAt(rows, i) == IF i \in DOMAIN rows THEN rows[i] ELSE RestRow(i)

\* _to_display_xy of the already clamped x, y of a row.
to_display_xy(point, hflip) ==
  IF hflip THEN <<One - point[1], point[2]>> ELSE <<point[1], point[2]>>

reflect_point_across_line(p, line) ==
  LET v == Sub(p, line.origin)
      d == line.direction
      k == 2 * Dot(v, d)
      n == Dot(d, d)
  IN <<line.origin[1] + (k * d[1]) \div n - v[1],
       line.origin[2] + (k * d[2]) \div n - v[2]>>

Instruction(draw, debug, group, slot, points) ==
  [draw |-> draw, debug |-> debug, group |-> group, slot |-> slot,
   points |-> points]

\* The loop of _build_displacement_overlay over metrics.displacements[k..]:
\* the rows of the array that the displacements view, and the points
\* collected.
RECURSIVE displacement_overlay_loop(_, _, _, _, _, _)
displacement_overlay_loop(displacements, k, midline, c, rows, acc) ==
  IF k > Len(displacements) THEN [rows |-> rows, acc |-> acc]
  ELSE
    LET disp == displacements[k]
        allowed == RangeOf(c.displacement_indices)
        allowed_set ==
          allowed \cup {IF idx \in DOMAIN FLIP_MAP THEN FLIP_MAP[idx] ELSE idx :
                          idx \in allowed}
    IN IF /\ allowed_set # {}
          /\ disp.healthy_index \notin allowed_set
          /\ disp.droopy_index \notin allowed_set
       THEN displacement_overlay_loop(displacements, k + 1, midline, c, rows,
                                      acc)
       ELSE
         LET rows1 == clamp01_in_place(rows, disp.healthy_index)
             rows2 == clamp01_in_place(rows1, disp.droopy_index)
             h0 == to_display_xy(RowAt(rows1, disp.healthy_index), c.hflip)
             d0 == to_display_xy(RowAt(rows2, disp.droopy_index), c.hflip)
             droopy_side == Lower(IF c.droopy = None \/ c.droopy = Some("")
                                  THEN "left" ELSE Val(c.droopy))
             droopy_should_be_right ==
               droopy_side = (IF c.hflip THEN "right" ELSE "left")
             droopy_actual_right ==
               IF d0[1] = h0[1] THEN droopy_should_be_right ELSE d0[1] > h0[1]
             swap == droopy_should_be_right # droopy_actual_right
             healthy_disp == IF swap THEN d0 ELSE h0
             droopy_disp == IF swap THEN h0 ELSE d0
             reflected == clamp01(reflect_point_across_line(healthy_disp,
                                                             midline))
             target_disp == IF reflected = healthy_disp THEN droopy_disp
                            ELSE reflected
         IN displacement_overlay_loop(
              displacements, k + 1, midline, c, rows2,
              [healthy_pts |-> Append(acc.healthy_pts, healthy_disp),
               droopy_pts |-> Append(acc.droopy_pts, droopy_disp),
               target_pts |-> Append(acc.target_pts, target_disp)])

\* _build_displacement_overlay: the rows of the viewed array afterwards and
\* the instructions.
build_displacement_overlay(metrics, midline, c, rows) ==
  IF metrics = None \/ midline = None \/ Val(metrics).displacements = <<>>
  THEN [rows |-> rows, instructions |-> <<>>]
  ELSE
    LET r == displacement_overlay_loop(
               Val(metrics).displacements, 1, Val(midline), c, rows,
               [healthy_pts |-> <<>>, droopy_pts |-> <<>>, target_pts |-> <<>>])
        pts(group, p) ==
          IF p = <<>> THEN <<>>
          ELSE <<Instruction("points", "displacements", group, 0 - 1, p)>>
    IN [rows |-> r.rows,
        instructions |->
          pts("displacement_healthy", r.acc.healthy_pts)
          \o pts("displacement_droopy", r.acc.droopy_pts)
          \o pts("displacement_target", r.acc.target_pts)
          \o [i \in 1..Len(r.acc.droopy_pts) |->
                Instruction("segment", "displacements", "", i - 1,
                            <<r.acc.droopy_pts[i], r.acc.target_pts[i]>>)]]

\* _build_overlay_instructions: None or the list of instructions (the
\* landmark points are given by the sampled rows; regions are off).
build_overlay_instructions(c, landmarks, midline, perpendicular) ==
  IF ~c.show_debug \/ landmarks = None THEN None
  ELSE Some(
    <<Instruction("points", "landmarks", "", 0 - 1,
                  [k \in 1..Len(Sorted(Sampled)) |->
                     SubSeq(Val(landmarks)[Sorted(Sampled)[k]], 1, 2)])>>
    \o (IF c.debug_midline /\ midline # None
        THEN <<Instruction("line", "midline", "", 0, <<Val(midline)>>)>>
        ELSE <<>>)
    \o (IF perpendicular # None
        THEN <<Instruction("line", "perpendicular", "", 1,
                           <<Val(perpendicular)>>)>>
        ELSE <<>>))

\* The metrics as the pipeline holds them: the coordinates of a displacement
\* or an anchor are views <<address, row>> of the landmark array.
MetricsViews(metrics, a) ==
  [droopy_side |-> metrics.droopy_side,
   healthy_side |-> metrics.healthy_side,
   displacements |->
     [k \in DOMAIN metrics.displacements |->
        [metrics.displacements[k] EXCEPT
           !.healthy_coords = <<a, metrics.displacements[k].healthy_index>>,
           !.droopy_coords = <<a, metrics.displacements[k].droopy_index>>]],
   midline_anchors |->
     [k \in DOMAIN metrics.midline_anchors |->
        [metrics.midline_anchors[k] EXCEPT
           !.coords = <<a, metrics.midline_anchors[k].index>>]]]

(***************************************************************************)
(* State                                                                   *)
(***************************************************************************)
VARIABLES
  tbl,       \* the last lookup in the correspondence table and what it gave
  calc,      \* the last call of compute_asymmetry_metrics: arguments, outcome
  warp,      \* the last call of warp_face: arguments and outcome
  blend,     \* the last direct call of blend_with_mask: arguments, outcome
  call,      \* the last direct call of another function: name, arguments, outcome
  cfg,       \* the configuration the pipeline was built with
  heap,      \* the landmark arrays that are alive, by address
  detector,  \* FaceMeshDetector: _smooth_landmarks
  pipeline,  \* Pipeline: _last_landmarks, _last_midline, _last_metrics
  drawn,     \* the instructions of the last call of Overlay.draw
  feed,      \* the array the tracker keeps finding, once it does
  tick,      \* flips at every call of the clock's callback
  log,       \* what the last process_frame saw and returned (history)
  canvas,    \* Overlay: its primitives, and what its last draw call did
  session,   \* SessionManager: _state, and what its last call did
  store      \* the database: schema version, tables, rows

tblVars == <<tbl>>

calcVars == <<calc>>

warpVars == <<warp, blend>>

callVars == <<call>>

pipeVars == <<cfg, heap, detector, pipeline, drawn, feed, tick, log>>

appVars == <<canvas, session, store>>

vars ==
  <<tbl, calc, warp, blend, call, cfg, heap, detector, pipeline, drawn, feed, tick, log,
    canvas, session, store>>

(***************************************************************************)
(* Bounds of the model                                                     *)
(***************************************************************************)
\* Indices 0..ProbeMax are looked up in the table (the tracker yields 468 or,
\* with refined landmarks, 478 points).
ProbeMax == 480

\* Longest sequence of tracked indices passed to the calculator.
MaxTracked == 2

\* Grid coordinates 0..GridMax of the points given to the calculator.
GridMax == 2

\* FrameSize, the side of the frames given to the warp engine, is defined
\* with the engine above.

(***************************************************************************)
(* Lookups in the correspondence table: the index is drawn at the start,   *)
(* ProbeTable looks it up.                                                 *)
(***************************************************************************)
TblIdle(i) ==
  [probed |-> FALSE, index |-> i, partner |-> None, back |-> None,
   left |-> FALSE, right |-> FALSE, midline |-> FALSE]

\* flip(i), flip(flip(i)) and the three membership tests for the index.
ProbeTable ==
  /\ ~tbl.probed
  /\ tbl' = [probed |-> TRUE,
             index |-> tbl.index,
             partner |-> flipped_index(tbl.index),
             back |-> IF flipped_index(tbl.index) = None THEN None
                      ELSE flipped_index(Val(flipped_index(tbl.index))),
             left |-> tbl.index \in LEFT_LANDMARKS,
             right |-> tbl.index \in RIGHT_LANDMARKS,
             midline |-> tbl.index \in MIDLINE_LANDMARKS]
  /\ UNCHANGED <<calcVars, warpVars, callVars, pipeVars, appVars>>

(***************************************************************************)
(* Calls of compute_asymmetry_metrics: the arguments are drawn at the      *)
(* start, Compute makes the call.                                          *)
(***************************************************************************)
DefaultPoint == <<1, 1, 0>>

\* The array of n points that holds pts[i] at the indices pts names and
\* DefaultPoint elsewhere.
LandmarkArray(n, pts) ==
  [i \in 0..(n - 1) |-> IF i \in DOMAIN pts THEN pts[i] ELSE DefaultPoint]

NoOutcome == [exc |-> None, ret |-> None]

\* given: the caller passes an array; otherwise landmarks is None.
CalcArgs(droopy, midline, tracked, n, pts) ==
  [called |-> FALSE, droopy |-> droopy, midline |-> midline,
   tracked |-> tracked, given |-> TRUE, n |-> n, pts |-> pts,
   out |-> NoOutcome]

Compute ==
  /\ ~calc.called
  /\ calc' = [calc EXCEPT
                !.called = TRUE,
                !.out = compute_asymmetry_metrics(
                          calc.droopy, calc.midline, calc.tracked,
                          IF calc.given
                          THEN Some(LandmarkArray(calc.n, calc.pts))
                          ELSE None)]
  /\ UNCHANGED <<tblVars, warpVars, callVars, pipeVars, appVars>>

DroopyValues == {None, Some("left"), Some("right"), Some("Right")}

\* Array lengths: empty, shorter than every right-side index, cutting the
\* right side at 249 and at 251, and the tracker's 478.
LenPool == {0, 4, 249, 251, 478}

\* Tracked indices: left 3 and 20, their partners 248 and 250, midline 1 and
\* 470, which is in no label set.
TrackedPool == {1, 3, 20, 248, 250, 470}

SeqsUpTo(S, n) == UNION {[1..k -> S] : k \in 0..n}

DefaultLine == Line2D(<<1, 1>>, <<0, 1>>)

\* Arguments that vary the configuration, the tracked indices and the length.
CalcIndexCases ==
  {CalcArgs(droopy, midline, tracked, n, EmptyDict) :
     droopy \in DroopyValues, midline \in {None, Some(DefaultLine)},
     tracked \in SeqsUpTo(TrackedPool, MaxTracked), n \in LenPool}

\* Arguments without a landmark array.
CalcMissingCases ==
  {[CalcArgs(droopy, midline, tracked, 0, EmptyDict) EXCEPT !.given = FALSE] :
     droopy \in DroopyValues \cup {Some("")},
     midline \in {None, Some(DefaultLine)},
     tracked \in SeqsUpTo(TrackedPool, 1)}

Directions ==
  {<<0, 1>>, <<1, 0>>, <<1, 1>>, <<0 - 1, 1>>,
   <<0, 0 - 1>>, <<0 - 1, 0>>, <<1, 0 - 1>>, <<0 - 1, 0 - 1>>}

GridPoints == {<<x, y>> : x \in 0..GridMax, y \in 0..GridMax}

\* Arguments that vary the midline and the coordinates of the pair (3, 248).
CalcGeometryCases ==
  {CalcArgs(droopy, Some(Line2D(origin, direction)), tracked, 478,
            (3 :> p3) @@ (248 :> p248)) :
     droopy \in {Some("left"), Some("right")},
     origin \in {<<0, 0>>, <<1, 1>>}, direction \in Directions,
     p3 \in GridPoints, p248 \in GridPoints, tracked \in {<<3>>, <<248>>}}

(***************************************************************************)
(* Calls of warp_face: the arguments are drawn at the start, WarpFace      *)
(* makes the call.                                                         *)
(***************************************************************************)
NoWarpOutcome == WarpOutcome(None, None, <<>>, None, None, None)

WarpArgs(frame, src_points, dst_points, mesh, method, blend_params) ==
  [called |-> FALSE, frame |-> frame, src_points |-> src_points,
   dst_points |-> dst_points, mesh |-> mesh, method |-> method,
   blend_params |-> blend_params, out |-> NoWarpOutcome]

WarpFace ==
  /\ ~warp.called
  /\ \E out \in warp_face(warp.frame, warp.src_points, warp.dst_points,
                          warp.mesh, warp.method, warp.blend_params) :
       warp' = [warp EXCEPT !.called = TRUE, !.out = out]
  /\ UNCHANGED <<tblVars, calcVars, blend, callVars, pipeVars, appVars>>

\* A frame whose pixels all differ.
TestFrame ==
  Image(FrameSize, FrameSize,
        [q \in (0..(FrameSize - 1)) \X (0..(FrameSize - 1)) |->
           10 + 10 * q[2] + q[1]])

Corners == <<<<0, 0>>, <<NormOne, 0>>, <<0, NormOne>>, <<NormOne, NormOne>>>>

\* np.asarray of a list of points: n rows of c coordinates for the shape
\* <<n, c>>, n numbers for the shape <<n>>.
ShapedArray(shape) ==
  PointArray(shape,
             [i \in 0..(shape[1] - 1) |->
                IF Len(shape) = 1 THEN 0
                ELSE [j \in 1..shape[2] |->
                        IF j <= 2 THEN Corners[(i % 4) + 1][j] ELSE 0]])

ShapePool == {<<2, 2>>, <<3, 2>>, <<4, 2>>, <<3, 3>>, <<3>>}

MethodPool == {"delaunay", "Delaunay", "tps", "mirror", ""}

\* Arguments that vary what the argument checks look at.
WarpCheckCases ==
  {WarpArgs(frame, ShapedArray(s), ShapedArray(d), None, method, None) :
     frame \in {None, Some(TestFrame)}, s \in ShapePool, d \in ShapePool,
     method \in MethodPool}

\* Normalised points: three corners of the frame and two points of its
\* diagonal.
PointPool == {<<0, 0>>, <<NormOne, 0>>, <<0, NormOne>>, <<1, 1>>, <<2, 2>>}

Rows(s) == [i \in 0..(Len(s) - 1) |-> s[i + 1]]

Points(s) == PointArray(<<Len(s), 2>>, Rows(s))

\* Destinations for the source points s: unmoved, moved one step to the
\* right, a fixed triangle, and all moved onto one point.
Destinations(s) ==
  {s,
   [i \in DOMAIN s |-> <<s[i][1] + 1, s[i][2]>>],
   [i \in DOMAIN s |-> Corners[((i - 1) % 4) + 1]],
   [i \in DOMAIN s |-> <<1, 1>>]}

\* Meshes a caller may pass: none, one triangle, a row counting from the end,
\* a row naming a fourth point, no rows, and a row naming a point twice.
MeshPool ==
  {None, Some(<<<<0, 1, 2>>>>), Some(<<<<0, 1, 0 - 1>>>>),
   Some(<<<<0, 1, 3>>>>), Some(<<>>), Some(<<<<0, 1, 2>>, <<0, 0, 1>>>>)}

NoParams == [feather |-> None, feather_kernel |-> None]

ParamsPool ==
  {None,
   Some([NoParams EXCEPT !.feather = Some(<<0, 1>>)]),
   Some([NoParams EXCEPT !.feather_kernel = Some(4)])}

Unblurred == Some([NoParams EXCEPT !.feather = Some(<<0, 1>>)])

\* Arguments that pass the checks and vary the points and the mesh.
WarpGeometryCases ==
  UNION {{WarpArgs(Some(TestFrame), Points(s), Points(d), mesh, "delaunay",
                   Unblurred) :
            d \in Destinations(s), mesh \in MeshPool} :
         s \in [1..3 -> PointPool] \cup {Corners}}

\* Arguments that pass the checks and vary the blend parameters.
WarpBlendCases ==
  UNION {{WarpArgs(Some(TestFrame), Points(s), Points(d), mesh, "delaunay",
                   params) :
            d \in Destinations(s), mesh \in {None, Some(<<<<0, 1, 2>>>>)},
            params \in ParamsPool} :
         s \in {SubSeq(Corners, 1, 3), <<<<0, 0>>, <<1, 1>>, <<2, 2>>>>}}

(***************************************************************************)
(* Direct calls of other functions: the name and the arguments are drawn   *)
(* at the start, the action of that name makes the call.                   *)
(***************************************************************************)
CallArgs(fn, args) == [fn |-> fn, args |-> args, called |-> FALSE, out |-> {}]

\* build_mesh called on its own.
BuildMesh ==
  /\ call.fn = "build_mesh"
  /\ ~call.called
  /\ \E out \in build_mesh(call.args[1]) :
       call' = [call EXCEPT !.called = TRUE, !.out = {out}]
  /\ UNCHANGED <<tblVars, calcVars, warpVars, pipeVars, appVars>>

\* Point arrays of every shape, and points on one line.
\* A direct call of Midline.midsagittal_line.  args: the length of the
\* landmark array, None when the caller passes None for the array, and the
\* rows of the four anchors.
MidsagittalLine ==
  /\ call.fn = "midsagittal_line"
  /\ ~call.called
  /\ call' = [call EXCEPT
                !.called = TRUE,
                !.out = midsagittal_line(
                          IF call.args[1] = None THEN None
                          ELSE Some(LandmarkArray(Val(call.args[1]),
                                                  call.args[2])))]
  /\ UNCHANGED <<tblVars, calcVars, warpVars, pipeVars, appVars>>

\* Array lengths: empty, too short for each anchor in turn, the shortest
\* array that holds all four, and the tracker's 478.
MidlineLenPool == {0, 1, 10, 11, 152, 153, 168, 169, 478}

\* Anchors on one line: from o in steps of d.
AnchorOrigins == {<<0, 0>>, <<1, 2>>}

AnchorSteps ==
  {<<0, 1>>, <<1, 0>>, <<0, 0 - 1>>, <<0 - 1, 0>>, <<3, 4>>, <<0 - 3, 4>>,
   <<3, 0 - 4>>, <<1, 1>>, <<1, 0 - 1>>, <<2, 1>>}

MaxStep == 2

\* The rows at the indices 152, 1, 168, 10.
Anchors(p) == (152 :> p[1]) @@ (1 :> p[2]) @@ (168 :> p[3]) @@ (10 :> p[4])

AnchorPool ==
  {Anchors([k \in 1..4 |-> <<o[1] + t[k] * d[1], o[2] + t[k] * d[2]>>]) :
     o \in AnchorOrigins, d \in AnchorSteps, t \in [1..4 -> 0..MaxStep]}
  \cup {Anchors(<<<<0, 0>>, <<2, 0>>, <<0, 2>>, <<2, 2>>>>),
        Anchors(<<<<0, 0>>, <<0, 4>>, <<1, 2>>, <<0 - 1, 2>>>>),
        Anchors(<<<<0, 1>>, <<4, 1>>, <<2, 0>>, <<2, 2>>>>)}

MidlineCases ==
  {CallArgs("midsagittal_line", <<n, pts>>) :
     n \in {None} \cup {Some(k) : k \in MidlineLenPool}, pts \in AnchorPool}

\* A direct call of Pipeline._healthy_with_midline_indices.  args:
\* cfg.method.tracked_indices and cfg.runtime.droopy.
HealthyWithMidlineIndices ==
  /\ call.fn = "_healthy_with_midline_indices"
  /\ ~call.called
  /\ call' = [call EXCEPT
                !.called = TRUE,
                !.out = {healthy_with_midline_indices(call.args[1],
                                                      call.args[2])}]
  /\ UNCHANGED <<tblVars, calcVars, warpVars, pipeVars, appVars>>

IndicesCases ==
  {CallArgs("_healthy_with_midline_indices", <<tracked, droopy>>) :
     tracked \in SeqsUpTo(TrackedPool, MaxTracked + 1),
     droopy \in DroopyValues \cup {Some("")}}

MeshCases ==
  {CallArgs("build_mesh", <<ShapedArray(s)>>) :
     s \in ShapePool \cup {<<0, 2>>, <<1, 2>>, <<0>>, <<2, 3>>}}
  \cup {CallArgs("build_mesh", <<Points(s)>>) : s \in [1..3 -> PointPool]}

(***************************************************************************)
(* Direct calls of blend_with_mask: the arguments are drawn at the start,  *)
(* BlendWithMask makes the call.                                           *)
(***************************************************************************)
NoBlendOutcome == [kernel_size |-> 0, mask_f |-> <<>>, image |-> None]

BlendArgs(original, warped, mask, params) ==
  [called |-> FALSE, original |-> original, warped |-> warped, mask |-> mask,
   params |-> params, out |-> NoBlendOutcome]

\* The warped image and the mask are converted to float32 by the call.
BlendWithMask ==
  /\ ~blend.called
  /\ \E out \in {blend_with_mask(
                    blend.original,
                    [q \in Pixels(blend.original) |-> blend.warped.px[q]],
                    [q \in Pixels(blend.original) |->
                       [c |-> blend.mask[q], e |-> 0]],
                    blend.params)} :
       blend' = [blend EXCEPT !.called = TRUE, !.out = out]
  /\ UNCHANGED <<tblVars, calcVars, warp, callVars, pipeVars, appVars>>

\* A frame with the least and the greatest pixel value.
ExtremeFrame ==
  Image(FrameSize, FrameSize,
        [q \in (0..(FrameSize - 1)) \X (0..(FrameSize - 1)) |->
           IF (q[1] + q[2]) % 2 = 0 THEN 255 ELSE 0])

\* Warped images as piecewise_affine_warp or another caller may give them:
\* float values with a fraction, values outside 0..255, and whole values.
WarpedPool ==
  {Image(FrameSize, FrameSize,
         [q \in (0..(FrameSize - 1)) \X (0..(FrameSize - 1)) |-> f[q[1]]]) :
     f \in {[x \in 0..(FrameSize - 1) |-> Q(101 + 2 * x, 2)],
            [x \in 0..(FrameSize - 1) |-> QInt(300 * x - 20)],
            [x \in 0..(FrameSize - 1) |-> QInt(255 - x)]}}

\* Masks: nothing covered, everything covered, the first column covered,
\* one pixel left out.
MaskPool ==
  {[q \in (0..(FrameSize - 1)) \X (0..(FrameSize - 1)) |-> 0],
   [q \in (0..(FrameSize - 1)) \X (0..(FrameSize - 1)) |-> 1],
   [q \in (0..(FrameSize - 1)) \X (0..(FrameSize - 1)) |->
      IF q[1] = 0 THEN 1 ELSE 0],
   [q \in (0..(FrameSize - 1)) \X (0..(FrameSize - 1)) |->
      IF q = <<0, 0>> THEN 0 ELSE 1]}

\* Parameter dicts: any of the feathers with any of the kernel overrides.
\* Feathers: absent, 0, negative, and two that ask for 3 and for 5 or 7
\* taps.
FeatherPool == {None, Some(<<0, 1>>), Some(<<0 - 1, 2>>), Some(<<1, 2>>),
                Some(<<5, 3>>)}

\* Kernel overrides: absent, not above 1, odd, and even ones that are
\* raised to 5 and 7 taps.
KernelPool == {None, Some(0), Some(1), Some(3), Some(4), Some(6)}

BlendParamsPool ==
  {None} \cup {Some([feather |-> f, feather_kernel |-> k]) :
                 f \in FeatherPool, k \in KernelPool}

BlendCases ==
  {BlendArgs(original, warped, mask, params) :
     original \in {TestFrame, ExtremeFrame}, warped \in WarpedPool,
     mask \in MaskPool, params \in BlendParamsPool}

(***************************************************************************)
(* The pipeline: process_frame is called for every camera frame.           *)
(***************************************************************************)
Config(alpha, hflip, overlay, displacements, show_debug) ==
  [alpha |-> alpha, hflip |-> hflip, overlay |-> overlay,
   displacements |-> displacements, show_debug |-> show_debug,
   debug_midline |-> FALSE, droopy |-> None, tracked_indices |-> <<263, 33>>,
   displacement_indices |-> default_displacement_indices]

NoLog ==
  [processed |-> FALSE, fed |-> FALSE, face |-> None, detect_ret |-> None,
   effective |-> None, prev_detected |-> None, last_detected |-> None,
   raised |-> None, metrics |-> None, had_metrics |-> FALSE,
   emitted |-> <<>>, settled |-> None, prev_settled |-> None]

NoPipeline ==
  [last_landmarks |-> None, last_midline |-> None, last_metrics |-> None]

\* _mirror_line_if_needed.
mirror_line_if_needed(line, hflip) ==
  IF line = None \/ ~hflip THEN line
  ELSE LET d == <<0 - Val(line).direction[1], Val(line).direction[2]>>
       IN Some(Line2D(<<One - Val(line).origin[1], Val(line).origin[2]>>,
                      IF d = <<0, 0>> THEN <<0, 1>> ELSE d))

\* Lines 143-149 of process_frame, for the landmark array with the rows
\* given: the rows afterwards and the instructions handed to
\* Overlay.draw (none if it is not called).  The landmark points are a view
\* of the displayed array, which is the landmark array itself unless the
\* picture is mirrored.
overlay_step(c, rows, metrics, midline_raw, mo) ==
  IF ~c.overlay THEN [rows |-> rows, instructions |-> <<>>]
  ELSE
    LET shown == c.displacements /\ metrics # None /\ midline_raw # None
        midline_overlay == IF mo[1] # None THEN mo[1]
                           ELSE mirror_line_if_needed(midline_raw, c.hflip)
        bd == IF shown
              THEN build_displacement_overlay(metrics, midline_overlay, c,
                                              Val(rows))
              ELSE [rows |-> IF rows = None THEN <<>> ELSE Val(rows),
                    instructions |-> <<>>]
        before == IF rows = None THEN None ELSE Some(Expand(Val(rows)))
        display == IF c.hflip THEN mirror_landmarks_if_needed(before, TRUE)
                   ELSE IF rows = None THEN None ELSE Some(Expand(bd.rows))
        base == build_overlay_instructions(c, display, mo[1], mo[2])
    IN [rows |-> IF rows = None THEN None ELSE Some(bd.rows),
        instructions |-> (IF base = None THEN <<>> ELSE Val(base))
                         \o bd.instructions]

\* The arrays that something still refers to.
Collect(h, refs) == [x \in Addr |-> IF Some(x) \in refs THEN h[x] ELSE None]

MetricsBase(m) ==
  IF m = None THEN None
  ELSE IF Val(m).displacements # <<>>
  THEN Some(Val(m).displacements[1].healthy_coords[1])
  ELSE IF Val(m).midline_anchors # <<>>
  THEN Some(Val(m).midline_anchors[1].coords[1])
  ELSE None

\* The rows of the array that _detect_landmarks hands to process_frame
\* after the detection det.
LandmarkRows(det) ==
  LET dl == detect_landmarks(pipeline.last_landmarks, det.ret)
  IN IF dl.landmarks = None THEN None ELSE det.heap[Val(dl.landmarks)]

LandmarkArrayOf(det) ==
  IF LandmarkRows(det) = None THEN None
  ELSE Some(Expand(Val(LandmarkRows(det))))

\* An analysis that does not look at the head pose.
analysis_AnyPose(det, midline_raw) ==
  IF /\ midline_raw # None
     /\ LandmarkArrayOf(det) # None
  THEN compute_asymmetry_metrics(
         cfg.droopy, midline_raw,
         healthy_with_midline_indices(cfg.tracked_indices, cfg.droopy),
         LandmarkArrayOf(det))
  ELSE NoOutcome

\* Lines 134-138: the outcome of the analysis.
analysis(det, midline_raw) ==
  IF /\ pose_within_limits(LandmarkArrayOf(det))
     /\ midline_raw # None
     /\ LandmarkArrayOf(det) # None
  THEN compute_asymmetry_metrics(
         cfg.droopy, midline_raw,
         healthy_with_midline_indices(cfg.tracked_indices, cfg.droopy),
         LandmarkArrayOf(det))
  ELSE NoOutcome

\* The state that process_frame leaves, given the detection, the midline
\* overlays, the outcome of the analysis and the result of the overlay step.
frame_result(face, fed, det, mo, out, ov) ==
  LET dl == detect_landmarks(pipeline.last_landmarks, det.ret)
      last_metrics ==
        IF out.exc # None THEN pipeline.last_metrics
        ELSE IF out.ret = None THEN None
        ELSE Some(MetricsViews(Val(out.ret), Val(dl.landmarks)))
      after == IF dl.landmarks = None THEN det.heap
               ELSE [det.heap EXCEPT ![Val(dl.landmarks)] = ov.rows]
  IN [detector |-> [smooth_landmarks |-> det.smooth_landmarks],
      pipeline |-> [last_landmarks |-> dl.last_landmarks,
                    last_midline |-> mo[1],
                    last_metrics |-> last_metrics],
      heap |-> Collect(
                 after,
                 {det.smooth_landmarks, dl.last_landmarks,
                  MetricsBase(last_metrics)}),
      drawn |-> IF ov.instructions # <<>> THEN ov.instructions ELSE drawn,
      log |-> [processed |-> TRUE,
               fed |-> fed,
               face |-> face,
               detect_ret |-> IF det.ret = None THEN None
                              ELSE det.heap[Val(det.ret)],
               effective |-> LandmarkRows(det),
               prev_detected |-> log.last_detected,
               last_detected |-> IF det.ret = None THEN log.last_detected
                                 ELSE det.heap[Val(det.ret)],
               raised |-> out.exc,
               metrics |-> out.ret,
               had_metrics |-> pipeline.last_metrics # None,
               emitted |-> ov.instructions,
               settled |-> IF det.ret = None THEN log.settled
                           ELSE after[Val(det.smooth_landmarks)],
               prev_settled |-> log.settled]]

\* Lines 143-149 after the analysis gave out.
overlay_after(det, midline_raw, mo, out) ==
  IF out.exc # None
  THEN [rows |-> LandmarkRows(det), instructions |-> <<>>]
  ELSE overlay_step(
         cfg, LandmarkRows(det),
         IF out.ret = None THEN None
         ELSE Some(MetricsViews(
                     Val(out.ret),
                     Val(detect_landmarks(pipeline.last_landmarks,
                                          det.ret).landmarks))),
         midline_raw, mo)

\* Pipeline.process_frame for a frame (None, or a texture in which the
\* tracker finds the face given): the states it may leave.  fed tells
\* whether the tracker is in its steady phase.
process_frame_outcomes(frame, fed) ==
  IF frame = None
  THEN {[detector |-> detector, pipeline |-> pipeline, heap |-> heap,
         drawn |-> drawn, log |-> log]}
  ELSE
    UNION {UNION {UNION {UNION {
      {frame_result(Val(frame).face, fed, det, mo, out, ov) :
         ov \in {overlay_after(det, midline_raw, mo, out)}} :
      out \in {analysis(det, midline_raw)}} :
      mo \in compute_midline_overlays(
               mirror_landmarks_if_needed(LandmarkArrayOf(det), cfg.hflip))} :
      midline_raw \in {OnGrid(line) :
                        line \in midsagittal_line(LandmarkArrayOf(det))}} :
      det \in {detect(detector.smooth_landmarks, heap, cfg.alpha,
                      Val(frame).face)}}

process_frame(frame, fed) ==
  \E nxt \in process_frame_outcomes(frame, fed) :
    /\ detector' = nxt.detector
    /\ pipeline' = nxt.pipeline
    /\ heap' = nxt.heap
    /\ drawn' = nxt.drawn
    /\ log' = nxt.log
    /\ UNCHANGED <<cfg, feed>>

\* _refresh, the callback that the clock calls at every tick: it hands the
\* camera's frame to process_frame.
refresh(frame, fed) == tick' = ~tick /\ process_frame(frame, fed)

\* What the tracker may find: 33 left of the midline, near or far in depth;
\* 263 right of it, inside the picture or beyond its right edge.
RawPool ==
  {(33 :> <<One \div 4, 1, z>>) @@ (263 :> <<x, 1, 0>>) :
     z \in {0, One}, x \in {One - One \div 4, 2 * One}}

Texture(face) == [face |-> face]

FramePool == {None, Some(Texture(None))} \cup {Some(Texture(Some(r))) : r \in RawPool}

\* A frame arrives while the face moves freely.
ProcessFrame ==
  /\ feed = None
  /\ \E frame \in FramePool : refresh(frame, FALSE)
  /\ UNCHANGED <<tblVars, calcVars, warpVars, callVars, appVars>>

\* From now on the tracker finds the same array in every frame.
BeginFeed ==
  /\ feed = None
  /\ \E c \in RawPool : feed' = Some(c)
  /\ UNCHANGED <<tblVars, calcVars, warpVars, callVars, cfg, heap, detector,
                 pipeline,
                 drawn, tick, log, appVars>>

\* A frame arrives in which the tracker finds that array.
ProcessFedFrame ==
  /\ feed # None
  /\ refresh(Some(Texture(feed)), TRUE)
  /\ UNCHANGED <<tblVars, calcVars, warpVars, callVars, appVars>>

ConfigPool ==
  {Config(alpha, hflip, overlay, displacements, show_debug) :
     alpha \in 0..AlphaDen, hflip \in BOOLEAN, overlay \in BOOLEAN,
     displacements \in BOOLEAN, show_debug \in BOOLEAN}

(***************************************************************************)
(* Overlay (overlay.py): the primitives it keeps on the preview's canvas.  *)
(* The overlay has a preview widget, as every overlay that the pipeline    *)
(* builds.  A primitive is visible (TRUE) once a draw routine has set its  *)
(* colour and geometry, and hidden (FALSE) when created and when cleared.  *)
(***************************************************************************)
\* An instruction: drawable tells whether its payload can be drawn (points
\* with at least one row, a line that crosses the unit square, a segment of
\* two points, a polygon of three or more); slot is None when the
\* instruction names none.
DrawItem(draw, debug, group, slot, drawable, z) ==
  [draw |-> draw, debug |-> debug, group |-> group, slot |-> slot,
   drawable |-> drawable, z |-> z]

\* The keys of the point layers that the instructions can name.
PointKeys == {"landmarks", "displacement_healthy", "default"}

\* Overlay.__init__.
NewOverlay(show_debug, flags) ==
  [show_debug |-> show_debug,
   flags |-> flags,
   point_layers |-> [k \in PointKeys |-> [visible |-> FALSE, used |-> FALSE]],
   line_segments |-> <<>>,
   line_slots_used |-> {},
   segment_lines |-> <<>>,
   segment_slots_used |-> {},
   segment_next_slot |-> 0,
   poly_segments |-> <<>>,
   poly_slots_used |-> {},
   poly_next_slot |-> 0]

\* _clear_lines, _clear_segments, _clear_polygons on a list of primitives.
Hidden(prims) == [i \in DOMAIN prims |-> FALSE]

\* _clear_unused_lines, _clear_unused_segments, _clear_unused_polygons.
UsedOnly(prims, used) == [i \in DOMAIN prims |-> prims[i] /\ (i - 1) \in used]

\* _ensure_line_primitives and its like: hidden primitives are appended
\* until there are count of them.
Ensure(prims, count) ==
  IF Len(prims) >= count THEN prims
  ELSE prims \o [i \in 1..(count - Len(prims)) |-> FALSE]

clear_points(o) ==
  [o EXCEPT !.point_layers =
     [k \in PointKeys |-> [o.point_layers[k] EXCEPT !.visible = FALSE]]]

\* A variant that forgets, when it hides the layers that were not drawn,
\* which layers were.
clear_unused_points_Reset(o) ==
  [o EXCEPT !.point_layers =
     [k \in PointKeys |->
        [visible |-> o.point_layers[k].visible /\ o.point_layers[k].used,
         used |-> FALSE]]]

clear_unused_points(o) ==
  [o EXCEPT !.point_layers =
     [k \in PointKeys |->
        IF ~o.point_layers[k].used
        THEN [o.point_layers[k] EXCEPT !.visible = FALSE]
        ELSE o.point_layers[k]]]

clear_lines(o) == [o EXCEPT !.line_segments = Hidden(@)]

clear_unused_lines(o) ==
  [o EXCEPT !.line_segments = UsedOnly(@, o.line_slots_used)]

clear_segments(o) == [o EXCEPT !.segment_lines = Hidden(@)]

clear_unused_segments(o) ==
  [o EXCEPT !.segment_lines = UsedOnly(@, o.segment_slots_used)]

clear_polygons(o) == [o EXCEPT !.poly_segments = Hidden(@)]

clear_unused_polygons(o) ==
  [o EXCEPT !.poly_segments = UsedOnly(@, o.poly_slots_used)]

\* The key of the point layer that an instruction names.
LayerKey(item) ==
  IF item.group # "" THEN item.group
  ELSE IF item.debug # "" THEN item.debug
  ELSE "default"

\* _draw_points; sized tells whether the widget and the texture have a size.
draw_points(o, item, sized) ==
  IF ~item.drawable \/ ~sized THEN clear_points(o)
  ELSE [o EXCEPT !.point_layers[LayerKey(item)] =
                   [visible |-> TRUE, used |-> TRUE]]

draw_line(o, item, sized) ==
  IF ~item.drawable \/ ~sized THEN o
  ELSE LET slot == IF item.slot = None THEN 0 ELSE Val(item.slot)
       IN [o EXCEPT !.line_segments =
                      [Ensure(@, slot + 1) EXCEPT ![slot + 1] = TRUE],
                    !.line_slots_used = @ \cup {slot}]

draw_segment(o, item, sized) ==
  IF ~item.drawable \/ ~sized THEN o
  ELSE LET slot == IF item.slot = None THEN o.segment_next_slot
                   ELSE Val(item.slot)
       IN [o EXCEPT !.segment_next_slot =
                      IF item.slot = None THEN @ + 1 ELSE @,
                    !.segment_lines =
                      [Ensure(@, slot + 1) EXCEPT ![slot + 1] = TRUE],
                    !.segment_slots_used = @ \cup {slot}]

draw_polygon(o, item, sized) ==
  IF ~item.drawable \/ ~sized THEN o
  ELSE LET slot == IF item.slot = None THEN o.poly_next_slot
                   ELSE Val(item.slot)
       IN [o EXCEPT !.poly_next_slot =
                      IF item.slot = None THEN @ + 1 ELSE @,
                    !.poly_segments =
                      [Ensure(@, slot + 1) EXCEPT ![slot + 1] = TRUE],
                    !.poly_slots_used = @ \cup {slot}]

\* self._layers.
DrawKinds == {"points", "line", "polygon", "segment"}

\* The primitive that an instruction is for: a point layer, or a slot of its
\* kind (none if the instruction leaves the choice of the slot to a draw
\* routine that does not get that far).
Target(o, item, sized) ==
  IF item.draw = "points" THEN {<<"points", LayerKey(item)>>}
  ELSE IF item.draw = "line"
  THEN {<<"line", IF item.slot = None THEN 0 ELSE Val(item.slot)>>}
  ELSE IF item.slot # None THEN {<<item.draw, Val(item.slot)>>}
  ELSE IF ~item.drawable \/ ~sized THEN {}
  ELSE {<<item.draw, IF item.draw = "segment" THEN o.segment_next_slot
                     ELSE o.poly_next_slot>>}

\* sorted(items, key = z): a stable sort.
RECURSIVE sorted_by_z(_)
sorted_by_z(items) ==
  IF items = <<>> THEN <<>>
  ELSE LET h == Head(items)
           rest == sorted_by_z(Tail(items))
           Before(x) == x.z < h.z
           After(x) == x.z >= h.z
       IN SelectSeq(rest, Before) \o <<h>> \o SelectSeq(rest, After)

\* The loop of draw over items[k..]: the overlay, whether an instruction
\* was handed to a draw routine, and the primitives the instructions were
\* for.
RECURSIVE draw_loop(_, _, _, _)
draw_loop(acc, items, k, sized) ==
  IF k > Len(items) THEN acc
  ELSE
    LET item == items[k]
        o == acc.overlay
    IN IF item.debug \notin o.flags \/ item.draw \notin DrawKinds
       THEN draw_loop(acc, items, k + 1, sized)
       ELSE draw_loop(
              [overlay |-> IF item.draw = "points"
                           THEN draw_points(o, item, sized)
                           ELSE IF item.draw = "line"
                           THEN draw_line(o, item, sized)
                           ELSE IF item.draw = "segment"
                           THEN draw_segment(o, item, sized)
                           ELSE draw_polygon(o, item, sized),
               rendered |-> TRUE,
               received |-> acc.received \cup Target(o, item, sized)],
              items, k + 1, sized)

\* Overlay.draw for a frame (None, or Some(sized)) and a list of
\* instructions.
draw(o, frame, instructions) ==
  IF ~o.show_debug \/ frame = None \/ instructions = <<>>
  THEN [overlay |-> clear_polygons(clear_lines(clear_points(o))),
        rendered |-> FALSE, received |-> {}]
  ELSE
    LET reset == [o EXCEPT !.line_slots_used = {},
                           !.segment_slots_used = {},
                           !.segment_next_slot = 0,
                           !.poly_slots_used = {},
                           !.poly_next_slot = 0]
        r == draw_loop([overlay |-> reset, rendered |-> FALSE,
                        received |-> {}],
                       sorted_by_z(instructions), 1, Val(frame))
    IN [r EXCEPT !.overlay =
          IF ~r.rendered
          THEN clear_polygons(clear_segments(clear_lines(clear_points(@))))
          ELSE clear_unused_polygons(clear_unused_segments(
                 clear_unused_lines(clear_unused_points(@))))]

\* The flags of cfg.debug that instructions name.
DebugFlags ==
  {"landmarks", "midline", "perpendicular", "displacements", "regions"}

\* The instructions that callers name: those the pipeline builds (landmark
\* points, displacement points and segments, the two lines, a region
\* outline), displacement points without a row, a segment that names no
\* slot and an instruction of an unknown kind.
LandmarkPoints == DrawItem("points", "landmarks", "", None, TRUE, 0)

HealthyPoints ==
  DrawItem("points", "displacements", "displacement_healthy", None, TRUE, 0)

NoPoints ==
  DrawItem("points", "displacements", "displacement_healthy", None, FALSE, 0)

MidlineLine == DrawItem("line", "midline", "", Some(0), TRUE, 0)

PerpendicularLine == DrawItem("line", "perpendicular", "", Some(1), TRUE, 0)

DisplacementSegment ==
  DrawItem("segment", "displacements", "", Some(0), TRUE, 0 - 1)

FreeSegment == DrawItem("segment", "displacements", "", None, TRUE, 0)

RegionOutline == DrawItem("polygon", "regions", "", None, TRUE, 0)

Caption == DrawItem("text", "landmarks", "", None, TRUE, 0)

\* The lists handed to draw: what the pipeline builds with and without the
\* landmark points, the lines and the displacements, and lists that reach
\* the other branches of the draw routines.
InstructionPool ==
  {<<>>,
   <<LandmarkPoints>>,
   <<MidlineLine, PerpendicularLine>>,
   <<LandmarkPoints, MidlineLine>>,
   <<LandmarkPoints, HealthyPoints, DisplacementSegment>>,
   <<HealthyPoints, DisplacementSegment>>,
   <<HealthyPoints, NoPoints>>,
   <<FreeSegment, FreeSegment, RegionOutline>>,
   <<RegionOutline, MidlineLine>>,
   <<Caption>>}

CanvasInit(o) ==
  [overlay |-> o, called |-> FALSE, frame |-> None, instructions |-> <<>>,
   rendered |-> FALSE, received |-> {}]

\* A call of Overlay.draw.
Draw ==
  /\ \E frame \in {None, Some(TRUE), Some(FALSE)} :
       \E instructions \in InstructionPool :
         \E r \in {draw(canvas.overlay, frame, instructions)} :
           canvas' = [overlay |-> r.overlay, called |-> TRUE,
                      frame |-> frame, instructions |-> instructions,
                      rendered |-> r.rendered, received |-> r.received]
  /\ UNCHANGED <<tblVars, calcVars, warpVars, callVars, pipeVars, session,
                 store>>

(***************************************************************************)
(* The database (services/db): init_db and the migrations                  *)
(***************************************************************************)
\* str of a version number: its decimal digits.
RECURSIVE str(_)
str(n) == IF n < 10 THEN <<n>> ELSE str(n \div 10) \o <<n % 10>>

\* int of a text of decimal digits.
RECURSIVE int(_)
int(text) ==
  IF Len(text) = 1 THEN text[1]
  ELSE 10 * int(SubSeq(text, 1, Len(text) - 1)) + text[Len(text)]

\* _MIGRATIONS, in the order of registration; each migration creates its
\* table if it does not exist.
MIGRATIONS ==
  <<[version |-> 1, table |-> "users"],
    [version |-> 2, table |-> "sessions"],
    [version |-> 3, table |-> "pose_photos"]>>

\* sorted(_MIGRATIONS, key = version): a stable sort.
RECURSIVE sorted_by_version(_)
sorted_by_version(list) ==
  IF list = <<>> THEN <<>>
  ELSE LET h == Head(list)
           rest == sorted_by_version(Tail(list))
           Before(x) == x.version < h.version
           After(x) == x.version >= h.version
       IN SelectSeq(rest, Before) \o <<h>> \o SelectSeq(rest, After)

\* A loop that also runs the migration of the version it starts from.
RECURSIVE apply_loop_Inclusive(_, _, _)
apply_loop_Inclusive(list, k, acc) ==
  IF k > Len(list) THEN acc
  ELSE IF list[k].version >= acc.target_version
  THEN apply_loop_Inclusive(
         list, k + 1,
         [target_version |-> list[k].version,
          ran |-> Append(acc.ran, list[k].version),
          tables |-> acc.tables \cup {list[k].table}])
  ELSE apply_loop_Inclusive(list, k + 1, acc)

\* The loop of apply_migrations over list[k..]: the target version, the
\* versions of the migrations run, and the tables of the database.
RECURSIVE apply_loop(_, _, _)
apply_loop(list, k, acc) ==
  IF k > Len(list) THEN acc
  ELSE IF list[k].version > acc.target_version
  THEN apply_loop(
         list, k + 1,
         [target_version |-> list[k].version,
          ran |-> Append(acc.ran, list[k].version),
          tables |-> acc.tables \cup {list[k].table}])
  ELSE apply_loop(list, k + 1, acc)

apply_migrations(tables, current_version) ==
  apply_loop(sorted_by_version(MIGRATIONS), 1,
             [target_version |-> current_version, ran |-> <<>>,
              tables |-> tables])

\* A database file: the value of metadata's schema_version row (None
\* without the row), the tables, the rows of sessions (the id of a row is
\* its place) and of pose_photos, and what the last init_db did (None
\* before the first).
Database(schema_version, tables, sessions) ==
  [schema_version |-> schema_version, tables |-> tables,
   sessions |-> sessions, pose_photos |-> {}, last_init |-> None]

\* init_db.
init_db(db) ==
  LET row == db.schema_version
      current_version == IF row = None THEN 0 ELSE int(Val(row))
      r == apply_migrations(db.tables \cup {"metadata"}, current_version)
  IN [db EXCEPT
        !.tables = r.tables,
        !.schema_version =
          IF r.target_version # current_version \/ row = None
          THEN Some(str(r.target_version))
          ELSE row,
        !.last_init = Some([ran |-> r.ran, before |-> row,
                            again |-> db.last_init # None])]

\* The tables that the migrations up to version v have created.
TablesAt(v) ==
  {MIGRATIONS[k].table : k \in {j \in DOMAIN MIGRATIONS : MIGRATIONS[j].version <= v}}

\* The files that init_db may find: none yet, and those left by a program
\* with fewer, the same or more migrations.
StoredVersions == {0, 2, 3, 4, 10}

DatabaseCases ==
  {Database(None, {}, <<>>)}
    \cup {Database(Some(str(v)), TablesAt(v) \cup {"metadata"}, <<>>) :
            v \in StoredVersions}

\* The versions that apply_migrations is called with.
VersionArgs == (0 - 1)..4

MigrationCases == {CallArgs("apply_migrations", <<v>>) : v \in VersionArgs}

\* A direct call of apply_migrations.
ApplyMigrations ==
  /\ call.fn = "apply_migrations"
  /\ ~call.called
  /\ \E r \in {apply_migrations(store.tables, call.args[1])} :
       /\ call' = [call EXCEPT !.called = TRUE,
                               !.out = {[ret |-> r.target_version,
                                         ran |-> r.ran]}]
       /\ store' = [store EXCEPT !.tables = r.tables]
  /\ UNCHANGED <<tblVars, calcVars, warpVars, pipeVars, canvas, session>>

\* A call of init_db.
InitDb ==
  /\ store' = init_db(store)
  /\ UNCHANGED <<tblVars, calcVars, warpVars, callVars, pipeVars, canvas,
                 session>>

(***************************************************************************)
(* The rows of the database, and the session manager                       *)
(* (session_manager.py) that writes them.  The manager has both callbacks. *)
(***************************************************************************)
MAX_POSES == 9

\* create_session: the new row's id is returned.
create_session(db, user_id) ==
  IF "sessions" \notin db.tables
  THEN [exc |-> Some("OperationalError"), db |-> db, ret |-> None]
  ELSE [exc |-> None,
        db |-> [db EXCEPT !.sessions =
                  Append(@, [user_id |-> user_id, is_complete |-> FALSE])],
        ret |-> Some(Len(db.sessions) + 1)]

\* A table that takes a row without a score.
upsert_pose_photo_Nullable(db, session_id, pose_index, photo_path, symmetry_score) ==
  IF "pose_photos" \notin db.tables
  THEN [exc |-> Some("OperationalError"), db |-> db]
  ELSE IF pose_index \notin 1..9
  THEN [exc |-> Some("IntegrityError"), db |-> db]
  ELSE [exc |-> None,
        db |-> [db EXCEPT !.pose_photos =
                  {r \in @ : ~(/\ r.session_id = session_id
                               /\ r.pose_index = pose_index)}
                    \cup {[session_id |-> session_id,
                           pose_index |-> pose_index,
                           photo_path |-> photo_path,
                           symmetry_score |->
                             IF symmetry_score = None THEN 0
                             ELSE Val(symmetry_score)]}]]

\* upsert_pose_photo under the constraints of the pose_photos table:
\* symmetry_score NOT NULL, pose_index BETWEEN 1 AND 9, one row for each
\* (session_id, pose_index).
upsert_pose_photo(db, session_id, pose_index, photo_path, symmetry_score) ==
  IF "pose_photos" \notin db.tables
  THEN [exc |-> Some("OperationalError"), db |-> db]
  ELSE IF symmetry_score = None \/ pose_index \notin 1..9
  THEN [exc |-> Some("IntegrityError"), db |-> db]
  ELSE [exc |-> None,
        db |-> [db EXCEPT !.pose_photos =
                  {r \in @ : ~(/\ r.session_id = session_id
                               /\ r.pose_index = pose_index)}
                    \cup {[session_id |-> session_id,
                           pose_index |-> pose_index,
                           photo_path |-> photo_path,
                           symmetry_score |-> Val(symmetry_score)]}]]

\* fetch_pose_photos_for_session.
fetch_pose_photos_for_session(db, session_id) ==
  {r \in db.pose_photos : r.session_id = session_id}

mark_session_complete(db, session_id) ==
  IF "sessions" \notin db.tables
  THEN [exc |-> Some("OperationalError"), db |-> db]
  ELSE [exc |-> None,
        db |-> IF session_id \in DOMAIN db.sessions
               THEN [db EXCEPT !.sessions[session_id].is_complete = TRUE]
               ELSE db]

\* pose_capture_path: the file of a pose in the directory of a session.
pose_capture_path(session_id, pose_index, extension) ==
  [session_id |-> session_id, pose_index |-> pose_index,
   extension |-> extension]

SessionState(session_id, current_pose, user_id, completed) ==
  [session_id |-> session_id, current_pose |-> current_pose,
   user_id |-> user_id, completed |-> completed]

\* What a call of the manager did: the exception it raised, the file it
\* wrote, and the writes to the database and the callbacks, in their order.
Call(op, pose_index) ==
  [op |-> op, pose_index |-> pose_index, exc |-> None, wrote |-> None,
   events |-> <<>>]

\* SessionManager.__init__.  completions counts the calls of
\* on_session_complete for the present state object.
NewManager(user_id) ==
  [user_id |-> user_id, state |-> None, completions |-> 0,
   last |-> Call("", None)]

Raised(m, db, op, pose_index, exc) ==
  [session |-> [m EXCEPT !.last = [Call(op, pose_index) EXCEPT !.exc = Some(exc)]],
   store |-> db]

start_session(m, db) ==
  LET r == create_session(db, m.user_id)
  IN IF r.exc # None THEN Raised(m, db, "start_session", None, Val(r.exc))
     ELSE [session |-> [m EXCEPT
                          !.state = Some(SessionState(Val(r.ret), 1, m.user_id,
                                                      FALSE)),
                          !.completions = 0,
                          !.last = Call("start_session", None)],
           store |-> r.db]

LastPose(rows) ==
  IF rows = {} THEN 0
  ELSE CHOOSE x \in {r.pose_index : r \in rows} :
         \A r \in rows : r.pose_index <= x

resume_session(m, db, session_id) ==
  LET last_pose == LastPose(fetch_pose_photos_for_session(db, session_id))
  IN IF "pose_photos" \notin db.tables \/ "sessions" \notin db.tables
     THEN Raised(m, db, "resume_session", None, "OperationalError")
     ELSE IF session_id \notin DOMAIN db.sessions
     THEN Raised(m, db, "resume_session", None, "ValueError")
     ELSE IF db.sessions[session_id].user_id # m.user_id
     THEN Raised(m, db, "resume_session", None, "ValueError")
     ELSE [session |-> [m EXCEPT
                          !.state =
                            Some(SessionState(
                                   session_id,
                                   IF last_pose < MAX_POSES THEN last_pose + 1
                                   ELSE MAX_POSES,
                                   db.sessions[session_id].user_id,
                                   db.sessions[session_id].is_complete)),
                          !.completions = 0,
                          !.last = Call("resume_session", None)],
           store |-> db]

\* finish_session on the state, the database and the call record in c.
finish_session(c) ==
  IF c.state.completed THEN c
  ELSE LET r == mark_session_complete(c.db, c.state.session_id)
       IN IF r.exc # None THEN [c EXCEPT !.last.exc = r.exc]
          ELSE [c EXCEPT
                  !.db = r.db,
                  !.state.completed = TRUE,
                  !.completions = @ + 1,
                  !.last.events = @ \o <<"mark_session_complete",
                                        "on_session_complete">>]

\* _record_pose.
record_pose(c, pose, file_path, auto_advance, symmetry_score) ==
  LET r == upsert_pose_photo(c.db, c.state.session_id, pose, file_path,
                             symmetry_score)
  IN IF r.exc # None THEN [c EXCEPT !.last.exc = r.exc]
     ELSE LET recorded ==
                [c EXCEPT
                   !.db = r.db,
                   !.last.events = @ \o <<"upsert_pose_photo",
                                         "on_pose_complete">>,
                   !.state.current_pose =
                     IF auto_advance /\ @ < MAX_POSES THEN @ + 1 ELSE @]
          IN IF pose >= MAX_POSES THEN finish_session(recorded)
             ELSE recorded

\* The manager and the database that a call leaves, given where it got.
Returned(m, c) ==
  [session |-> [m EXCEPT !.state = Some(c.state),
                         !.completions = c.completions,
                         !.last = c.last],
   store |-> c.db]

Entered(m, db, op, pose_index) ==
  [state |-> Val(m.state), db |-> db, completions |-> m.completions,
   last |-> Call(op, pose_index)]

\* capture_pose and capture_pose_texture (op names which): pose_index is
\* None or Some(number).
capture_pose(m, db, op, pose_index, extension) ==
  IF m.state = None THEN Raised(m, db, op, pose_index, "RuntimeError")
  ELSE
    LET pose == IF pose_index = None \/ Val(pose_index) = 0
                THEN Val(m.state).current_pose
                ELSE Val(pose_index)
        file_path == pose_capture_path(Val(m.state).session_id, pose,
                                       extension)
    IN IF pose < 1 \/ pose > MAX_POSES
       THEN Raised(m, db, op, pose_index, "ValueError")
       ELSE Returned(
              m,
              record_pose(
                [Entered(m, db, op, pose_index) EXCEPT
                   !.last.wrote = Some(file_path)],
                pose, file_path, pose_index = None, None))

finish_session_call(m, db) ==
  IF m.state = None
  THEN Raised(m, db, "finish_session", None, "RuntimeError")
  ELSE Returned(m, finish_session(Entered(m, db, "finish_session", None)))

\* Most rows that the sessions table gets.
MaxSessions == 2

\* The pose indices that callers pass: none, and numbers around the ends of
\* 1..9.
PoseArgs == {None, Some(0 - 1), Some(0), Some(1), Some(9), Some(10)}

\* The poses and scores that are recorded with a score.
ScoredPoses == {0, 1, 9}

Scores == {Some(1)}

Took(r) ==
  /\ session' = r.session
  /\ store' = r.store
  /\ UNCHANGED <<tblVars, calcVars, warpVars, callVars, pipeVars, canvas>>

StartSession ==
  /\ Len(store.sessions) < MaxSessions
  /\ Took(start_session(session, store))

ResumeSession ==
  \E session_id \in 1..(Len(store.sessions) + 1) :
    Took(resume_session(session, store, session_id))

CapturePose ==
  \E pose_index \in PoseArgs :
    Took(capture_pose(session, store, "capture_pose", pose_index, "png"))

CapturePoseTexture ==
  \E pose_index \in PoseArgs :
    \E extension \in {"png", "jpg"} :
      Took(capture_pose(session, store, "capture_pose_texture", pose_index,
                        extension))

FinishSession == Took(finish_session_call(session, store))

\* A direct call of db.upsert_pose_photo that carries a score.
UpsertPosePhoto ==
  /\ \E session_id \in DOMAIN store.sessions :
       \E pose_index \in ScoredPoses :
         \E symmetry_score \in Scores :
           store' = upsert_pose_photo(
                      store, session_id, pose_index,
                      pose_capture_path(session_id, pose_index, "png"),
                      symmetry_score).db
  /\ UNCHANGED <<tblVars, calcVars, warpVars, callVars, pipeVars, canvas,
                 session>>

(***************************************************************************)
(* Specifications                                                          *)
(***************************************************************************)
TblOff == tbl = [TblIdle(0) EXCEPT !.probed = TRUE]

CalcOff == calc = [CalcArgs(None, None, <<>>, 0, EmptyDict) EXCEPT !.called = TRUE]

\* No call of warp_face is open: the last one had no frame and raised.
WarpOff ==
  warp = [WarpArgs(None, ShapedArray(<<3>>), ShapedArray(<<3>>), None, "", None)
            EXCEPT !.called = TRUE,
                   !.out = WarpOutcome(Some("ValueError"), None, <<>>, None,
                                       None, None)]

CallOff == call = [CallArgs("", <<>>) EXCEPT !.called = TRUE]

BlendOff ==
  blend = [BlendArgs(TestFrame,
                     Image(FrameSize, FrameSize,
                           [q \in Pixels(TestFrame) |-> QInt(0)]),
                     [q \in Pixels(TestFrame) |-> 0], None)
             EXCEPT !.called = TRUE]

\* The pipeline as constructed.
PipeInit(configs) ==
  /\ cfg \in configs
  /\ heap = [x \in Addr |-> None]
  /\ detector = [smooth_landmarks |-> None]
  /\ pipeline = NoPipeline
  /\ drawn = <<>>
  /\ feed = None
  /\ tick = FALSE
  /\ log = NoLog

PipeOff == PipeInit({Config(1, FALSE, FALSE, FALSE, FALSE)})

\* No overlay is drawn on: debugging is off.
AppOff ==
  /\ canvas = CanvasInit(NewOverlay(FALSE, {}))
  /\ session = NewManager(1)
  /\ store = Database(None, {}, <<>>)

InitTable ==
  tbl \in {TblIdle(i) : i \in 0..ProbeMax} /\ CalcOff /\ WarpOff /\ BlendOff /\ CallOff
  /\ PipeOff
  /\ AppOff

NextTable == ProbeTable

SpecTable == InitTable /\ [][NextTable]_vars

InitCalc ==
  /\ TblOff
  /\ calc \in (CalcIndexCases \cup CalcMissingCases \cup CalcGeometryCases)
  /\ WarpOff
  /\ BlendOff
  /\ CallOff
  /\ PipeOff
  /\ AppOff

NextCalc == Compute

SpecCalc == InitCalc /\ [][NextCalc]_vars

InitWarp ==
  /\ TblOff
  /\ CalcOff
  /\ \/ /\ warp \in (WarpCheckCases \cup WarpGeometryCases
                       \cup WarpBlendCases)
        /\ CallOff
     \/ /\ WarpOff
        /\ call \in MeshCases
  /\ BlendOff
  /\ PipeOff
  /\ AppOff

NextWarp == WarpFace \/ BuildMesh

SpecWarp == InitWarp /\ [][NextWarp]_vars

InitBlend ==
  /\ TblOff
  /\ CalcOff
  /\ WarpOff
  /\ blend \in BlendCases
  /\ CallOff
  /\ PipeOff
  /\ AppOff

NextBlend == BlendWithMask

SpecBlend == InitBlend /\ [][NextBlend]_vars

InitMidline ==
  /\ TblOff
  /\ CalcOff
  /\ WarpOff
  /\ BlendOff
  /\ call \in MidlineCases
  /\ PipeOff
  /\ AppOff

NextMidline == MidsagittalLine

SpecMidline == InitMidline /\ [][NextMidline]_vars

InitIndices ==
  /\ TblOff
  /\ CalcOff
  /\ WarpOff
  /\ BlendOff
  /\ call \in IndicesCases
  /\ PipeOff
  /\ AppOff

NextIndices == HealthyWithMidlineIndices

SpecIndices == InitIndices /\ [][NextIndices]_vars

InitMigrations ==
  /\ TblOff /\ CalcOff /\ WarpOff /\ BlendOff
  /\ call \in MigrationCases
  /\ PipeOff
  /\ canvas = CanvasInit(NewOverlay(FALSE, {}))
  /\ session = NewManager(1)
  /\ store \in DatabaseCases

NextMigrations == ApplyMigrations \/ InitDb

SpecMigrations == InitMigrations /\ [][NextMigrations]_vars

\* The application has called init_db on a new file; the sessions table is
\* empty or holds the session of another user.
InitSession ==
  /\ TblOff /\ CalcOff /\ WarpOff /\ BlendOff /\ CallOff
  /\ PipeOff
  /\ canvas = CanvasInit(NewOverlay(FALSE, {}))
  /\ session = NewManager(1)
  /\ store \in {[init_db(Database(None, {}, <<>>)) EXCEPT !.sessions = rows] :
                  rows \in {<<>>, <<[user_id |-> 2, is_complete |-> FALSE]>>}}

NextSession ==
  \/ StartSession
  \/ ResumeSession
  \/ CapturePose
  \/ CapturePoseTexture
  \/ FinishSession
  \/ UpsertPosePhoto

SpecSession == InitSession /\ [][NextSession]_vars

InitOverlay ==
  /\ TblOff /\ CalcOff /\ WarpOff /\ BlendOff /\ CallOff
  /\ PipeOff
  /\ session = NewManager(1)
  /\ store = Database(None, {}, <<>>)
  /\ canvas \in {CanvasInit(NewOverlay(show_debug, flags)) :
                   show_debug \in BOOLEAN,
                   flags \in {DebugFlags, DebugFlags \ {"displacements"}}}

NextOverlay == Draw

SpecOverlay == InitOverlay /\ [][NextOverlay]_vars

Init ==
  TblOff /\ CalcOff /\ WarpOff /\ BlendOff /\ CallOff /\ PipeInit(ConfigPool)
  /\ AppOff

Next == ProcessFrame \/ BeginFeed \/ ProcessFedFrame

Spec == Init /\ [][Next]_vars

\* The smoother is followed with the picture unmirrored and the landmark
\* points not drawn, the displacement overlay drawn or not.
SmoothingConfigPool ==
  {Config(alpha, FALSE, shown, shown, FALSE) :
     alpha \in 0..AlphaDen, shown \in BOOLEAN}

InitFair ==
  /\ TblOff /\ CalcOff /\ WarpOff /\ BlendOff /\ CallOff
  /\ PipeInit(SmoothingConfigPool)
  /\ AppOff

\* A tick of the clock in the steady phase.
FedTick == feed # None /\ tick' = ~tick

\* The clock calls _refresh at every tick (Clock.schedule_interval), so
\* frames keep arriving.  In the steady phase every tick is a step of
\* ProcessFedFrame and ProcessFedFrame is always enabled, so the condition is
\* weak fairness of ProcessFedFrame.
SpecFair == InitFair /\ [][Next]_vars /\ WF_tick(FedTick)

(***************************************************************************)
(* Claims about the correspondence table (SpecTable)                       *)
(***************************************************************************)
\* C6: the flip map is an involution: an index that has a partner is the
\* partner of its partner.
C6_FlipInvolution ==
  (tbl.probed /\ tbl.partner # None) => tbl.back = Some(tbl.index)

\* A looked-up index with a partner: 61 and 291, the mouth corners.
C6_Witness ==
  tbl.probed /\ tbl.index = 61 /\ tbl.partner = Some(291) /\ tbl.back = Some(61)

\* C7: LEFT_LANDMARKS, RIGHT_LANDMARKS and MIDLINE_LANDMARKS are pairwise
\* disjoint: no index is in two of them.
C7_LabelSetsDisjoint ==
  tbl.probed =>
    /\ ~(tbl.left /\ tbl.right)
    /\ ~(tbl.left /\ tbl.midline)
    /\ ~(tbl.right /\ tbl.midline)

\* A looked-up index that is in one of the sets (right-side 248).
C7_Witness ==
  tbl.probed /\ tbl.index = 248 /\ tbl.right /\ ~tbl.left /\ ~tbl.midline

(***************************************************************************)
(* Claims about compute_asymmetry_metrics (SpecCalc)                       *)
(***************************************************************************)
\* h and d are mirror images across the line: the segment between them is
\* perpendicular to the line and its midpoint lies on the line.
IsMirrorPair(h, d, line) ==
  /\ Dot(<<h[1] - d[1], h[2] - d[2]>>, line.direction) = 0
  /\ Cross(<<h[1] + d[1] - 2 * line.origin[1],
             h[2] + d[2] - 2 * line.origin[2]>>, line.direction) = 0

CalcReturned == calc.called /\ calc.out.ret # None

CalcDisplacements ==
  IF calc.out.ret = None THEN <<>> ELSE Val(calc.out.ret).displacements

AllPairsMirrored ==
  \A k \in DOMAIN CalcDisplacements :
    IsMirrorPair(CalcDisplacements[k].healthy_coords,
                 CalcDisplacements[k].droopy_coords, Val(calc.midline))

\* C4 as stated: when every pair is mirrored across the midline, every
\* displacement has perpendicular_delta = 0 and midline_delta = 0.
C4_SymmetricZeroDeltas ==
  (CalcReturned /\ AllPairsMirrored) =>
    \A k \in DOMAIN CalcDisplacements :
      /\ CalcDisplacements[k].perpendicular_delta = 0
      /\ CalcDisplacements[k].midline_delta = 0

\* C4 as amended: when every pair is mirrored across the midline, every
\* displacement has midline_delta = 0 and perpendicular_delta equal to twice
\* the healthy point's perpendicular offset.
C4_SymmetricDeltas ==
  (CalcReturned /\ AllPairsMirrored) =>
    \A k \in DOMAIN CalcDisplacements :
      /\ CalcDisplacements[k].midline_delta = 0
      /\ CalcDisplacements[k].perpendicular_delta =
           2 * CalcDisplacements[k].healthy_perp_offset

\* A call that returned a mirrored pair lying off the midline.
C4_Witness ==
  /\ CalcReturned
  /\ AllPairsMirrored
  /\ \E k \in DOMAIN CalcDisplacements :
       CalcDisplacements[k].healthy_perp_offset # 0

\* C5 as stated: the call never raises, and every displacement it returns
\* has both indices below the length of the landmark array.
C5_NeverRaises ==
  calc.called =>
    /\ calc.out.exc = None
    /\ calc.out.ret # None
    /\ \A k \in DOMAIN CalcDisplacements :
         /\ CalcDisplacements[k].healthy_index < calc.n
         /\ CalcDisplacements[k].droopy_index < calc.n

\* C8 as stated: given a midline and a non-empty array, every tracked
\* in-range droopy-side index d whose partner flip(d) is in range appears in
\* exactly one returned displacement, paired with flip(d).
C8_DroopyPullsPartner ==
  (calc.called /\ calc.midline # None /\ calc.n > 0) =>
    \A d \in RangeOf(calc.tracked) :
      ( /\ 0 <= d
        /\ d < calc.n
        /\ belongs_to_side(d, resolve_droopy_side(calc.droopy))
        /\ flipped_index(d) # None
        /\ Val(flipped_index(d)) < calc.n )
      => /\ calc.out.ret # None
         /\ Cardinality({k \in DOMAIN CalcDisplacements :
                           /\ CalcDisplacements[k].droopy_index = d
                           /\ CalcDisplacements[k].healthy_index =
                                Val(flipped_index(d))}) = 1

\* The side the configuration names: "left" when it names none.
ConfiguredSide ==
  CASE calc.droopy \in {None, Some(""), Some("left")} -> "left"
    [] calc.droopy \in {Some("right"), Some("Right")} -> "right"

Opposite(side) == CASE side = "left" -> "right" [] side = "right" -> "left"

NothingToMeasure == calc.midline = None \/ ~calc.given \/ calc.n = 0

\* C15: a call of compute_asymmetry_metrics without a midline, without a
\* landmark array or with an empty one returns without raising; the result
\* has no displacements and no midline anchors, its droopy_side is the
\* configured side and its healthy_side the opposite one.
C15_EmptyResultKeepsSides ==
  (calc.called /\ NothingToMeasure) =>
    /\ calc.out.exc = None
    /\ calc.out.ret # None
    /\ Val(calc.out.ret).displacements = <<>>
    /\ Val(calc.out.ret).midline_anchors = <<>>
    /\ Val(calc.out.ret).droopy_side = ConfiguredSide
    /\ Val(calc.out.ret).healthy_side = Opposite(ConfiguredSide)

\* A call without an array, with a midline, a tracked index and the right
\* side configured in capitals.
C15_Witness ==
  /\ calc.called
  /\ ~calc.given
  /\ calc.midline # None
  /\ calc.tracked # <<>>
  /\ calc.droopy = Some("Right")
  /\ calc.out.ret # None
  /\ Val(calc.out.ret).healthy_side = "left"

CalcAnchors ==
  IF calc.out.ret = None THEN <<>> ELSE Val(calc.out.ret).midline_anchors

\* The call the state records.
CalcLandmarks ==
  IF calc.given THEN Some(LandmarkArray(calc.n, calc.pts)) ELSE None

\* C16: the displacements a call returns are strictly ascending in
\* healthy_index and the midline anchors strictly ascending in index,
\* whatever the order of the tracked indices and whether or not one occurs
\* twice; the call with the tracked indices sorted and without duplicates
\* returns the same two sequences.
C16_AscendingOutput ==
  (calc.called /\ calc.out.ret # None) =>
    /\ \A j, k \in DOMAIN CalcDisplacements :
         j < k => CalcDisplacements[j].healthy_index
                    < CalcDisplacements[k].healthy_index
    /\ \A j, k \in DOMAIN CalcAnchors :
         j < k => CalcAnchors[j].index < CalcAnchors[k].index
    /\ calc.out = compute_asymmetry_metrics(
                    calc.droopy, calc.midline,
                    Sorted(RangeOf(calc.tracked)), CalcLandmarks)

\* Two healthy-side indices tracked in descending order, both measured.
C16_Witness ==
  /\ calc.called
  /\ Len(calc.tracked) = 2
  /\ calc.tracked[1] > calc.tracked[2]
  /\ Len(CalcDisplacements) = 2

\* Two anchors tracked in descending order, and an index tracked twice.
C16_WitnessAnchors ==
  /\ calc.called
  /\ \/ /\ Len(calc.tracked) = 2
        /\ calc.tracked[1] > calc.tracked[2]
        /\ Len(CalcAnchors) = 2
     \/ /\ Len(calc.tracked) = 2
        /\ calc.tracked[1] = calc.tracked[2]
        /\ Len(CalcDisplacements) + Len(CalcAnchors) = 1

\* idx is in none of the three label sets.
Unlabelled(idx) ==
  /\ idx \notin LEFT_LANDMARKS
  /\ idx \notin RIGHT_LANDMARKS
  /\ idx \notin MIDLINE_LANDMARKS

\* C17: in a call with a midline and an array, every tracked index below the
\* length of the array that is in none of the LEFT, RIGHT and MIDLINE sets
\* gives exactly one MidlineAnchorMetric and is the healthy_index or the
\* droopy_index of no displacement.
C17_UnlabelledIsAnchor ==
  (calc.called /\ ~NothingToMeasure) =>
    \A idx \in RangeOf(calc.tracked) :
      (0 <= idx /\ idx < calc.n /\ Unlabelled(idx)) =>
        /\ calc.out.ret # None
        /\ Cardinality({k \in DOMAIN CalcAnchors :
                          CalcAnchors[k].index = idx}) = 1
        /\ \A k \in DOMAIN CalcDisplacements :
             /\ CalcDisplacements[k].healthy_index # idx
             /\ CalcDisplacements[k].droopy_index # idx

\* The unlabelled index 470 tracked twice, or together with a labelled
\* index that is measured.
C17_Witness ==
  /\ calc.called
  /\ ~NothingToMeasure
  /\ calc.n > 470
  /\ \E i \in DOMAIN calc.tracked : calc.tracked[i] = 470
  /\ Unlabelled(470)
  /\ Len(calc.tracked) = 2
  /\ Len(CalcAnchors) = 1
  /\ Len(CalcDisplacements) = 1

\* C27: every displacement that a call returns has its healthy_index in
\* the landmark set of the healthy side, its droopy_index in the set of the
\* droopy side, and droopy_index = flip(healthy_index); no index is in a
\* displacement and also a midline anchor, and no healthy_index is in two
\* displacements.  The last part holds the counterpart of every healthy-side
\* index against the flip map, once for each configuration.
C27_PairsWellFormed ==
  (calc.called /\ calc.out.ret # None) =>
    /\ \A k \in DOMAIN CalcDisplacements :
         /\ CalcDisplacements[k].healthy_index
              \in SIDE_TO_LANDMARKS[Opposite(ConfiguredSide)]
         /\ CalcDisplacements[k].droopy_index
              \in SIDE_TO_LANDMARKS[ConfiguredSide]
         /\ DictGet(FLIP_MAP, CalcDisplacements[k].healthy_index)
              = Some(CalcDisplacements[k].droopy_index)
         /\ \A a \in DOMAIN CalcAnchors :
              /\ CalcAnchors[a].index # CalcDisplacements[k].healthy_index
              /\ CalcAnchors[a].index # CalcDisplacements[k].droopy_index
    /\ \A j, k \in DOMAIN CalcDisplacements :
         CalcDisplacements[j].healthy_index = CalcDisplacements[k].healthy_index
           => j = k
    /\ calc.tracked = <<>> =>
         \A h \in SIDE_TO_LANDMARKS[Opposite(ConfiguredSide)] :
           \E c \in {select_counterpart(h, ConfiguredSide)} :
             \/ c = None
             \/ /\ c = flipped_index(h)
                /\ Val(c) \in SIDE_TO_LANDMARKS[ConfiguredSide]

\* A droopy-side index and a midline index were tracked: the pair of the
\* first and the anchor of the second came back.
C27_Witness ==
  /\ calc.called
  /\ calc.out.ret # None
  /\ Len(CalcDisplacements) = 1
  /\ Len(CalcAnchors) = 1
  /\ CalcDisplacements[1].droopy_index \in RangeOf(calc.tracked)
  /\ CalcDisplacements[1].healthy_index \notin RangeOf(calc.tracked)

(***************************************************************************)
(* Claims about the warp engine (SpecWarp)                                 *)
(***************************************************************************)
\* What the claim calls invalid arguments: the shapes of the two point
\* arrays differ, they are not N x 2, they hold fewer than 3 points, or the
\* method named is not delaunay (in any capitalisation).
WarpShapesBad ==
  \/ warp.src_points.shape # warp.dst_points.shape
  \/ Len(warp.src_points.shape) # 2
  \/ warp.src_points.shape[2] # 2
  \/ warp.src_points.shape[1] < 3

WarpMethodBad == warp.method \notin {"delaunay", "Delaunay", "DELAUNAY"}

\* C9: warp_face raises and returns no image whenever the point arrays
\* differ in shape, are not N x 2, hold fewer than 3 points, or the method
\* is not delaunay; with an unsupported method no stage of any algorithm
\* runs.
C9_InvalidArgumentsRaise ==
  (warp.called /\ (WarpShapesBad \/ WarpMethodBad)) =>
    /\ warp.out.exc \in {Some("ValueError"), Some("NotImplementedError")}
    /\ warp.out.ret = None
    /\ warp.out.ran = <<>>

\* A call with a frame and three matching points that names the method tps:
\* NotImplementedError, nothing ran.
C9_Witness ==
  /\ warp.called
  /\ warp.frame # None
  /\ ~WarpShapesBad
  /\ warp.method = "tps"
  /\ warp.out.exc = Some("NotImplementedError")
  /\ warp.out.ret = None
  /\ warp.out.ran = <<>>

\* Row k of the mesh that the engine iterated names three source points that
\* are collinear or coincident.
SourceDegenerate(k) ==
  LET n == ArrLen(warp.src_points.rows)
      tri == Val(warp.out.mesh)[k]
      p(j) == warp.src_points.rows[Wrap(n, tri[j])]
  IN Area2(p(1), p(2), p(3)) = 0

MeshRowsValid ==
  \A k \in 1..Len(Val(warp.out.mesh)) :
    \A j \in 1..3 :
      IndexOk(ArrLen(warp.src_points.rows), Val(warp.out.mesh)[k][j])

\* C10: a triangle whose three source vertices are collinear or coincident
\* adds nothing to the accumulator or to the weight of any pixel, and no
\* exception leaves piecewise_affine_warp.
C10_DegenerateSkipped ==
  (/\ warp.called
   /\ warp.out.mesh # None
   /\ MeshRowsValid
   /\ \E k \in 1..Len(Val(warp.out.mesh)) : SourceDegenerate(k)) =>
    /\ warp.out.exc = None
    /\ \A k \in 1..Len(Val(warp.out.mesh)) :
         SourceDegenerate(k) =>
           \A q \in Pixels(Val(warp.frame)) : k \notin Val(warp.out.pw).added[q]

\* Pixel q was covered by no triangle and lies more than the radius of the
\* blur kernel from every covered pixel.
FarUncovered(q) ==
  LET pw == Val(warp.out.pw)
      r == (Val(warp.out.bl).kernel_size - 1) \div 2
  IN /\ pw.weight[q] = 0
     /\ \A p \in Pixels(Val(warp.frame)) :
          pw.weight[p] > 0 => Abs(p[1] - q[1]) > r \/ Abs(p[2] - q[2]) > r

\* C11: at a pixel that no triangle covers and that lies beyond the feather
\* radius of every covered pixel the mask of piecewise_affine_warp is 0 and
\* the output of warp_face has the pixel of the frame.
C11_UncoveredPixelsKept ==
  (warp.called /\ warp.out.bl # None) =>
    \A q \in Pixels(Val(warp.frame)) :
      FarUncovered(q) =>
        /\ Val(warp.out.pw).mask[q] = [c |-> 0, e |-> 0]
        /\ Val(warp.out.ret).px[q] = Val(warp.frame).px[q]

\* C14: build_mesh raises an invalid-input error for fewer than 3 points,
\* and every mesh that the warp engine iterates, built by build_mesh or
\* passed by the caller, has rows of three distinct indices in 0..N-1 for
\* the N points.
C14_MeshValid ==
  /\ (/\ call.fn = "build_mesh"
      /\ call.called
      /\ Len(call.args[1].shape) = 2
      /\ call.args[1].shape[1] < 3) => call.out = {Raises("ValueError")}
  /\ (warp.called /\ warp.out.mesh # None) =>
       \A k \in 1..Len(Val(warp.out.mesh)) :
         LET row == Val(warp.out.mesh)[k]
         IN /\ \A j \in 1..3 :
                 0 <= row[j] /\ row[j] < ArrLen(warp.src_points.rows)
            /\ Cardinality({row[1], row[2], row[3]}) = 3

(***************************************************************************)
(* Claims about Midline.midsagittal_line (SpecMidline)                     *)
(***************************************************************************)
MidlineCalled == call.fn = "midsagittal_line" /\ call.called

\* The rows of the four anchors that the call was given.
AnchorRows == <<call.args[2][152], call.args[2][1],
                call.args[2][168], call.args[2][10]>>

\* The array holds all four anchors.
AnchorsInArray == call.args[1] # None /\ Val(call.args[1]) > 168

\* The squared norm differs from 1 by no more than 1e-5, so the norm does
\* neither.
UnitWithinTolerance(direction) ==
  /\ direction[1] # NaN
  /\ direction[2] # NaN
  /\ \E n2 \in {QAdd(Q(direction[1].num * direction[1].num, direction[1].rad),
                      Q(direction[2].num * direction[2].num, direction[2].rad))} :
       100000 * Abs(n2[1] - n2[2]) <= n2[2]

\* C18: every line that midsagittal_line returns has a direction whose
\* Euclidean norm is 1 within 1e-5, also when the four anchors coincide.
C18_UnitDirection ==
  MidlineCalled =>
    \A out \in call.out :
      out # None => UnitWithinTolerance(Val(out).direction)

\* A line was returned for four anchors that coincide.
C18_Witness ==
  /\ MidlineCalled
  /\ AnchorRows[1] = AnchorRows[2]
  /\ AnchorRows[2] = AnchorRows[3]
  /\ AnchorRows[3] = AnchorRows[4]
  /\ \E out \in call.out : out # None

\* A line was returned whose direction has no whole or fractional
\* components.
C18_WitnessSkew ==
  /\ MidlineCalled
  /\ \E out \in call.out :
       /\ out # None
       /\ Val(out).direction[1].rad = 2

\* C19: midsagittal_line returns None when the array is None, empty or too
\* short to hold the indices 152, 1, 168 and 10; otherwise it returns a
\* line whose origin is the centroid of the four anchors.  It never raises.
C19_NoneOrCentroid ==
  MidlineCalled =>
    /\ call.out # {}
    /\ \A out \in call.out :
         IF AnchorsInArray
         THEN /\ out # None
              /\ \A j \in 1..2 :
                   QMul(Val(out).origin[j], QInt(4))
                     = QInt(AnchorRows[1][j] + AnchorRows[2][j]
                            + AnchorRows[3][j] + AnchorRows[4][j])
         ELSE out = None

\* None was returned for an array that holds the anchors 152, 1 and 10 but
\* not 168.
C19_Witness ==
  /\ MidlineCalled
  /\ call.args[1] = Some(168)
  /\ call.out = {None}

\* A line was returned whose centroid is not whole.
C19_WitnessLine ==
  /\ MidlineCalled
  /\ call.args[1] = Some(169)
  /\ \E out \in call.out : out # None /\ Val(out).origin[1][2] = 4

(***************************************************************************)
(* Claims about Pipeline._healthy_with_midline_indices (SpecIndices)       *)
(***************************************************************************)
IndicesCalled == call.fn = "_healthy_with_midline_indices" /\ call.called

\* The landmarks of the side opposite the configured droopy side.
HealthySideLandmarks ==
  CASE call.args[2] \in {None, Some(""), Some("left")} -> RIGHT_LANDMARKS
    [] call.args[2] \in {Some("right"), Some("Right")} -> LEFT_LANDMARKS

\* C20: with no configured tracked_indices the indices handed to the
\* asymmetry calculator are the landmarks of the healthy side together with
\* MIDLINE_LANDMARKS; with configured tracked_indices they are the
\* configured indices, each as often as it is configured.
C20_DefaultTrackedIndices ==
  IndicesCalled =>
    \A out \in call.out :
      IF call.args[1] = <<>>
      THEN RangeOf(out) = HealthySideLandmarks \cup MIDLINE_LANDMARKS
      ELSE /\ RangeOf(out) = RangeOf(call.args[1])
           /\ \A x \in RangeOf(out) :
                Cardinality({i \in DOMAIN out : out[i] = x})
                  = Cardinality({i \in DOMAIN call.args[1] :
                                   call.args[1][i] = x})

\* The default was taken with the right side configured as droopy, in
\* capitals: the left side's 220 landmarks and the 28 of the midline.
C20_Witness ==
  /\ IndicesCalled
  /\ call.args[1] = <<>>
  /\ call.args[2] = Some("Right")
  /\ \E out \in call.out : Len(out) = 248 /\ 3 \in RangeOf(out)

\* Configured indices, one of them twice, were handed on.
C20_WitnessConfigured ==
  /\ IndicesCalled
  /\ call.args[1] = <<250, 3, 250>>
  /\ call.out = {<<3, 250, 250>>}

(***************************************************************************)
(* Claims about blend_with_mask (SpecBlend)                                *)
(***************************************************************************)
MaskIs(v) == \A q \in DOMAIN blend.mask : blend.mask[q] = v

\* The warped value clamped to the pixel range.
ClampedWarped(q) ==
  LET w == blend.warped.px[q]
  IN IF QLess(w, QInt(0)) THEN QInt(0)
     ELSE IF QLess(QInt(255), w) THEN QInt(255) ELSE w

\* Pixel q of the output differs from the clamped warped value by less than
\* one level.
NearWarped(q) ==
  LET d == QAdd(QInt(blend.out.image.px[q]), QNeg(ClampedWarped(q)))
  IN QLess(QInt(0 - 1), d) /\ QLess(d, QInt(1))

\* C12: with an all-zero mask blend_with_mask returns the original, with an
\* all-one mask the warped image clamped to the pixel range, within rounding,
\* whatever the feather setting.
C12_BlendBoundaries ==
  blend.called =>
    /\ MaskIs(0) => blend.out.image = blend.original
    /\ MaskIs(1) => \A q \in Pixels(blend.original) : NearWarped(q)

\* A call with an all-one mask that is blurred, a warped image with
\* fractions, and an output that is not the original.
C12_Witness ==
  /\ blend.called
  /\ MaskIs(1)
  /\ blend.out.kernel_size > 1
  /\ \E q \in Pixels(blend.original) : blend.warped.px[q][2] # 1
  /\ blend.out.image # blend.original

FeatherIsZero ==
  blend.params # None /\ Val(blend.params).feather = Some(<<0, 1>>)

AsGiven(mask) == [q \in DOMAIN mask |-> E(QInt(mask[q]), QInt(0))]

\* C13 as stated: for every parameter dict whose feather is 0 the kernel
\* size is 1 and the mask is used unblurred.
C13_ZeroFeatherNoBlur ==
  (blend.called /\ FeatherIsZero) =>
    /\ blend.out.kernel_size = 1
    /\ blend.out.mask_f = AsGiven(blend.mask)

\* C13 as it holds: the same for every parameter dict whose feather is 0
\* and whose feather_kernel is absent or at most 1.
C13_ZeroFeatherNoOverrideNoBlur ==
  (/\ blend.called
   /\ FeatherIsZero
   /\ \/ Val(blend.params).feather_kernel = None
      \/ Val(Val(blend.params).feather_kernel) <= 1) =>
    /\ blend.out.kernel_size = 1
    /\ blend.out.mask_f = AsGiven(blend.mask)

\* A call with feather 0, a kernel override of 1 and a mask that a blur
\* would change.
C13_Witness ==
  /\ blend.called
  /\ FeatherIsZero
  /\ Val(blend.params).feather_kernel = Some(1)
  /\ ~MaskIs(0)
  /\ ~MaskIs(1)
  /\ blend.out.kernel_size = 1

(***************************************************************************)
(* Claims about the detector and the pipeline (Spec, SpecFair)             *)
(***************************************************************************)
\* C1: on a frame where the tracker finds nothing, the landmark set that
\* process_frame works on equals the set returned on the most recent earlier
\* frame with a detection (None if there was none).
C1_StaleFallback ==
  (log.processed /\ log.face = None) => log.effective = log.prev_detected

\* C2: detect returns the raw array on the first frame with a detection, and
\* alpha * previous + (1 - alpha) * raw on every later one, previous being
\* the value that the preceding detection stored.
C2_DetectSmooths ==
  (log.processed /\ log.face # None) =>
    log.detect_ret =
      IF log.prev_detected = None THEN log.face
      ELSE Some(ema(cfg.alpha, Val(log.prev_detected), Val(log.face)))

\* The smoothed output differs from the array by at most the rounding of
\* one smoothing step in every coordinate.
Tol == AlphaDen \div 2

Within(a, b) ==
  \A i \in DOMAIN b : \A j \in 1..3 : Abs(a[i][j] - b[i][j]) <= Tol

Converged ==
  /\ feed # None
  /\ log.fed
  /\ log.detect_ret # None
  /\ Within(Val(log.detect_ret), Val(feed))

InUnitSquare(rows) ==
  \A i \in DOMAIN rows : clamp01(rows[i]) = SubSeq(rows[i], 1, 2)

ViewedRow(view) == RowAt(Val(heap[view[1]]), view[2])

\* C24: building the displacement overlay changes nothing that was produced
\* before it: after process_frame the stored last-known array and the
\* smoother's array hold the rows that the frame's landmark step handed
\* over, and the coordinates of every displacement are those that
\* compute_asymmetry_metrics read.
C24_OverlayLeavesArrays ==
  log.processed =>
    /\ pipeline.last_landmarks # None =>
         heap[Val(pipeline.last_landmarks)] = log.effective
    /\ detector.smooth_landmarks # None =>
         heap[Val(detector.smooth_landmarks)] = log.effective
    /\ pipeline.last_metrics # None =>
         \A k \in DOMAIN Val(pipeline.last_metrics).displacements :
           /\ ViewedRow(Val(pipeline.last_metrics).displacements[k].healthy_coords)
                = Val(log.metrics).displacements[k].healthy_coords
           /\ ViewedRow(Val(pipeline.last_metrics).displacements[k].droopy_coords)
                = Val(log.metrics).displacements[k].droopy_coords

\* The last frame's analysis was unavailable: no landmark set, or the head
\* pose outside the depth limit.  (The tracker's arrays hold every anchor,
\* so a landmark set always has a midline.)
AnalysisUnavailable ==
  \/ log.effective = None
  \/ ~pose_within_limits(Some(Expand(Val(log.effective))))

DisplacementInstructions(list) ==
  {k \in DOMAIN list : list[k].debug = "displacements"}

\* C25: after a process_frame call whose analysis was unavailable the stored
\* metrics are None and no displacement instruction was emitted for the
\* frame.
C25_NoMetricsWhenUnavailable ==
  (log.processed /\ AnalysisUnavailable) =>
    /\ pipeline.last_metrics = None
    /\ DisplacementInstructions(log.emitted) = {}

\* A frame with the head turned too far, processed with the displacement
\* overlay on, after a frame that left metrics.
C25_Witness ==
  /\ log.processed
  /\ log.effective # None
  /\ AnalysisUnavailable
  /\ log.had_metrics
  /\ cfg.overlay
  /\ cfg.displacements
  /\ pipeline.last_metrics = None

\* The smoother's stored array as it is now.
StoredSmoothed ==
  IF detector.smooth_landmarks = None THEN None
  ELSE heap[Val(detector.smooth_landmarks)]

\* On a frame without a face detect returns None, the stored smoothed array
\* is after the frame what it was when the last frame with a detection
\* ended, and it is the set the pipeline worked on.
GapKeepsState ==
  (log.processed /\ log.face = None) =>
    /\ log.detect_ret = None
    /\ StoredSmoothed = log.prev_settled
    /\ log.effective = log.prev_settled

\* The frame with a detection that follows a frame without one is blended
\* with the smoothed array as the gap left it.
NextDetectionBlends ==
  (/\ log.processed
   /\ log.face = None
   /\ StoredSmoothed # None
   /\ log'.face # None) =>
    log'.detect_ret =
      Some(ema(cfg.alpha, Val(StoredSmoothed), Val(log'.face)))

\* C30: on a frame where the tracker finds no face, detect returns None and
\* leaves the stored smoothed state unchanged; the stale set that the
\* pipeline reuses during the gap equals that stored value, and the next
\* frame with a detection is blended with it.
C30_GapKeepsSmoothedState == []GapKeepsState /\ [][NextDetectionBlends]_vars

\* A frame without a face, worked on the stored array of an earlier
\* detection, with a smoothing factor of one half and the face free to
\* reappear in the next frame.
C30_Witness ==
  /\ log.processed
  /\ log.face = None
  /\ log.effective # None
  /\ StoredSmoothed = log.effective
  /\ 0 < cfg.alpha
  /\ cfg.alpha < AlphaDen
  /\ feed = None

(***************************************************************************)
(* Claims about Overlay.draw (SpecOverlay)                                 *)
(***************************************************************************)
VisibleSlots(kind, prims) == {<<kind, i - 1>> : i \in {j \in DOMAIN prims : prims[j]}}

VisibleLayers(o) ==
  {<<"points", k>> : k \in {x \in PointKeys : o.point_layers[x].visible}}

VisiblePrimitives(o) ==
  VisibleLayers(o)
    \cup VisibleSlots("line", o.line_segments)
    \cup VisibleSlots("segment", o.segment_lines)
    \cup VisibleSlots("polygon", o.poly_segments)

\* C26: after a draw call that handed at least one instruction to a draw
\* routine, every visible primitive (point layer, line slot, segment slot,
\* polygon slot) is one that an instruction of that call was for.
C26_OnlyDrawnVisible ==
  (canvas.called /\ canvas.rendered) =>
    VisiblePrimitives(canvas.overlay) \subseteq canvas.received

\* The same for the slots alone.
SlotsOnlyDrawnVisible ==
  (canvas.called /\ canvas.rendered) =>
    (VisiblePrimitives(canvas.overlay) \ VisibleLayers(canvas.overlay))
      \subseteq canvas.received

(***************************************************************************)
(* Claims about the migrations (SpecMigrations)                            *)
(***************************************************************************)
RegisteredVersions == {MIGRATIONS[k].version : k \in DOMAIN MIGRATIONS}

Highest(S) == CHOOSE x \in S : \A y \in S : y <= x

\* The version that a stored schema_version row stands for (0 without it).
VersionOf(row) == IF row = None THEN 0 ELSE int(Val(row))

\* C23: apply_migrations(conn, v) runs the registered migrations with a
\* version above v, each once and in ascending order, and returns the larger
\* of v and the highest registered version; after init_db the stored
\* schema_version is the highest version applied, and an init_db that
\* follows another on the same database runs nothing and leaves
\* schema_version as it was.
C23_MigrationsOnceInOrder ==
  /\ (call.fn = "apply_migrations" /\ call.called) =>
       \A r \in call.out :
         /\ r.ran = Sorted({x \in RegisteredVersions : x > call.args[1]})
         /\ r.ret = Highest(RegisteredVersions \cup {call.args[1]})
  /\ store.last_init # None =>
       /\ Val(store.last_init).ran =
            Sorted({x \in RegisteredVersions :
                      x > VersionOf(Val(store.last_init).before)})
       /\ store.schema_version # None
       /\ VersionOf(store.schema_version) =
            Highest(RangeOf(Val(store.last_init).ran)
                      \cup {VersionOf(Val(store.last_init).before)})
       /\ Val(store.last_init).again =>
            /\ Val(store.last_init).ran = <<>>
            /\ store.schema_version = Val(store.last_init).before

\* A second init_db on a database that now stands at version 3, next to a
\* call apply_migrations(conn, 1) that ran the migrations 2 and 3.
C23_Witness ==
  /\ store.last_init # None
  /\ Val(store.last_init).again
  /\ store.schema_version = Some(str(3))
  /\ store.tables = TablesAt(3) \cup {"metadata"}
  /\ call.fn = "apply_migrations"
  /\ call.called
  /\ \E r \in call.out : r.ran = <<2, 3>> /\ r.ret = 3

\* The first init_db on a new file: all three migrations run.
C23_WitnessFresh ==
  /\ store.last_init # None
  /\ ~Val(store.last_init).again
  /\ Val(store.last_init).before = None
  /\ Val(store.last_init).ran = <<1, 2, 3>>

(***************************************************************************)
(* Claims about the session manager and the store (SpecSession)            *)
(***************************************************************************)
Captures == {"capture_pose", "capture_pose_texture"}

\* The step is a call of the manager.
ManagerStep == session' # session

\* The step is a capture on an active session.
CaptureStep ==
  /\ ManagerStep
  /\ session.state # None
  /\ session'.last.op \in Captures

\* The rows that the store holds for a session and a pose after the step.
RowsFor(session_id, pose_index) ==
  {r \in store'.pose_photos :
     r.session_id = session_id /\ r.pose_index = pose_index}

\* A capture that got as far as writing its file does not raise, and the
\* store then holds exactly one row for the session and the pose, with the
\* path of that file.
CaptureAccepted ==
  (CaptureStep /\ session'.last.wrote # None) =>
    /\ session'.last.exc = None
    /\ \E r \in store'.pose_photos :
         /\ RowsFor(Val(session'.last.wrote).session_id,
                    Val(session'.last.wrote).pose_index) = {r}
         /\ r.photo_path = Val(session'.last.wrote)

\* C21: the store accepts a pose capture that carries no symmetry score:
\* after capture_pose it holds exactly one row for (session_id, pose_index),
\* with the new photo path, also when the pose was captured before.
C21_CaptureAccepted == [][CaptureAccepted]_vars

\* C22: a capture with an explicit pose index outside 1..9 raises
\* ValueError, writes no file, and leaves the store and the session state
\* as they were.
C22_OutOfRangeRejected ==
  [][(/\ CaptureStep
      /\ session'.last.pose_index # None
      /\ Val(session'.last.pose_index) \notin 1..MAX_POSES) =>
       /\ session'.last.exc = Some("ValueError")
       /\ session'.last.wrote = None
       /\ store' = store
       /\ session'.state = session.state]_vars

\* current_pose of an active session is between 1 and 9.
CurrentPoseInRange ==
  session.state # None => Val(session.state).current_pose \in 1..MAX_POSES

\* A default capture advances current_pose by one unless it is 9; a capture
\* with an explicit pose index leaves it.
CaptureAdvances ==
  CaptureStep =>
    Val(session'.state).current_pose =
      IF session'.last.pose_index = None
         /\ Val(session.state).current_pose < MAX_POSES
      THEN Val(session.state).current_pose + 1
      ELSE Val(session.state).current_pose

\* C28: current_pose of an active session stays between 1 and 9 through
\* every call; a default capture advances it by exactly one unless it is 9,
\* and a capture with an explicit pose index leaves it unchanged.
C28_CurrentPoseAdvances == []CurrentPoseInRange /\ [][CaptureAdvances]_vars

\* The step is a call on the session state that was there before it.
SameStateStep ==
  /\ ManagerStep
  /\ session.state # None
  /\ session'.last.op \in Captures \cup {"finish_session"}

\* completed does not go back to FALSE on one session state.
CompletedStays ==
  (SameStateStep /\ Val(session.state).completed) =>
    /\ Val(session'.state).completed
    /\ session'.completions = session.completions

\* The first explicit finish_session marks the store and then calls
\* on_session_complete.
FinishCompletes ==
  (/\ SameStateStep
   /\ ~Val(session.state).completed
   /\ session'.last.op = "finish_session") =>
    /\ Val(session'.state).completed
    /\ session'.completions = session.completions + 1
    /\ session'.last.events = <<"mark_session_complete", "on_session_complete">>
    /\ store'.sessions[Val(session.state).session_id].is_complete

\* The first recording of pose 9 records the pose, calls on_pose_complete,
\* marks the store and then calls on_session_complete.
NinthPoseCompletes ==
  (/\ SameStateStep
   /\ ~Val(session.state).completed
   /\ session'.last.op \in Captures
   /\ session'.last.wrote # None
   /\ Val(session'.last.wrote).pose_index = MAX_POSES) =>
    /\ Val(session'.state).completed
    /\ session'.completions = session.completions + 1
    /\ session'.last.events = <<"upsert_pose_photo", "on_pose_complete",
                                "mark_session_complete", "on_session_complete">>

\* C29: on one session state completed never goes back to FALSE, and
\* on_session_complete is called once: at the first recording of pose 9 or
\* the first explicit finish_session, after the store was marked complete
\* and after the capture's on_pose_complete; never again after that.
C29_CompletionOnce ==
  /\ [](session.completions <= 1)
  /\ [][CompletedStays]_vars
  /\ [][FinishCompletes]_vars
  /\ [][NinthPoseCompletes]_vars

\* C29 without the recording of pose 9.
FinishCompletionOnce ==
  /\ [](session.completions <= 1)
  /\ [][CompletedStays]_vars
  /\ [][FinishCompletes]_vars

====
